---- MODULE Spec2Model ----
(***************************************************************************)
(* Register Target Framework (RTF.h): the IRegisterTarget capability with  *)
(* its default batch operations, the FluentRegisterTarget wrapper with its *)
(* interposer lifecycle, and the BasicPoller state machine.                *)
(*                                                                         *)
(* One wrapper call is one action: the action runs the whole member        *)
(* function (interposer hooks, underlying target calls, exception          *)
(* handling) and leaves what the caller and the interposer observed in     *)
(* events / accesses / out / thrown.  pollRead is the exception: it blocks *)
(* in sleeps while the device register may change, so it is stepped.       *)
(***************************************************************************)
EXTENDS Integers, Sequences, FiniteSets, TLC

(***************************************************************************)
(* Bounds of the model                                                     *)
(***************************************************************************)
\* longest span handed to a batch operation
MaxLen == 3
\* wrapper calls made in one run
MaxOps == 2
\* single-access data values are 0..MaxData plus the bit patterns below
MaxData == 1
\* content of the caller's out buffer before a call (0xAA)
Untouched == 170
\* longest time a sleep_for may overrun its nominal duration (ms)
MaxOversleep == 1
\* largest maximum chunk size handed to chunkify, and the callbacks kept
MaxChunkSize == MaxLen + 1
MaxCalls == MaxLen + 1
\* interposer instances made and wrappers constructed in one run
MaxInterposers == MaxOps + 1
MaxWrappers == MaxOps

(***************************************************************************)
(* Program constants                                                       *)
(***************************************************************************)
\* DataType = uint8_t, AddressType = uint16_t
DataBits == 8
AddrBits == 16

RECURSIVE Pow2(_)
Pow2(n) == IF n = 0 THEN 1 ELSE 2 * Pow2(n - 1)

DataMod == Pow2(DataBits)
AddrMod == Pow2(AddrBits)

RECURSIVE BitAnd(_, _)
BitAnd(a, b) ==
    IF a = 0 \/ b = 0 THEN 0
    ELSE (a % 2) * (b % 2) + 2 * BitAnd(a \div 2, b \div 2)

BitOr(a, b) == a + b - BitAnd(a, b)

\* ~m truncated back to DataType
BitNot(m) == (DataMod - 1) - m

(***************************************************************************)
(* Input sets                                                              *)
(***************************************************************************)
DataVals == (0 .. MaxData) \cup {14, 15, 255}
MaskVals == {0, 15, 255}
\* the data spans handed to batch writes: two value patterns per length
DataSpans(n) == { [i \in 1 .. n |-> 10 + ((p * (i - 1)) % 3)] : p \in {1, 2} }
\* register addresses used by single accesses, and the start of a batch
RegAddrs == {16}
StartAddrs == {256}
\* the start of a batch that runs past the largest address
WrapStartAddrs == {Pow2(AddrBits) - 4}
\* scattered addresses and (address, data) pairs of the compressed accesses
CompAddrs == {260, 256}
AddrSpans(n) == { [i \in 1 .. n |-> IF (p + i) % 2 = 0 THEN 260 ELSE 256] : p \in {1, 2} }
PairSpans(n) == { [i \in 1 .. n |-> <<IF (p + i) % 2 = 0 THEN 260 ELSE 256, 10 + ((p * (i - 1)) % 3)>>] :
                  p \in {1, 2} }
Increments == {0, 4}
\* BasicPoller(initial_delay, wait_delay, timeout), in ms
BasicPoller(initial_delay, wait_delay, timeout) ==
    [initial_delay |-> initial_delay, wait_delay |-> wait_delay, timeout |-> timeout]
Pollers == {BasicPoller(0, 10, 50), BasicPoller(5, 10, 30), BasicPoller(0, 10, 30),
            BasicPoller(5, 20, 30), BasicPoller(0, 20, 0)}
\* values the polled device register may take on its own, and what is polled for
DeviceVals == {0, 1, 255}
PollExpected == {1, 255}
PollMasks == {15, 255}
Delays == {0, 5}

\* the address held at the last one that fits instead of wrapping
SeqAddr_Clamped(start_addr, increment, i) ==
    IF start_addr + (increment * i) >= AddrMod
    THEN start_addr + (increment * ((AddrMod - 1 - start_addr) \div increment))
    ELSE start_addr + (increment * i)

\* the element index left out of the address
SeqAddr_NoIndex(start_addr, increment, i) == (start_addr + increment) % AddrMod

\* address of element i (0-based) of a sequential access
SeqAddr(start_addr, increment, i) == (start_addr + (increment * i)) % AddrMod

Addrs == RegAddrs \cup CompAddrs \cup
         { SeqAddr(s, inc, i) : s \in StartAddrs \cup WrapStartAddrs, inc \in Increments,
                                i \in 0 .. (MaxLen - 1) }

SpansUpTo(F(_), n) == UNION { F(k) : k \in 0 .. n }

(***************************************************************************)
(* Exceptions.  A target's write/read may raise; the failure is either     *)
(* derived from std::exception or it is not (throw 42).                    *)
(***************************************************************************)
Exc(kind, expected, mask, actual) ==
    [kind |-> kind, expected |-> expected, mask |-> mask, actual |-> actual]

NoExc == Exc("none", 0, 0, 0)
TargetStdExc == Exc("target_std_exception", 0, 0, 0)
\* assert() failed: the process is aborted, nothing propagates
Aborted == Exc("abort", 0, 0, 0)
\* out-of-bounds store through a span (NDEBUG build): the process may crash
Crashed == Exc("crash", 0, 0, 0)

WriteVerifyFailureException(expected, mask, full_actual) ==
    Exc("WriteVerifyFailure", expected, mask, full_actual)
ReadVerifyFailureException(expected, mask, full_actual) ==
    Exc("ReadVerifyFailure", expected, mask, full_actual)
PollReadTimeoutException(expected, mask, full_actual) ==
    Exc("PollReadTimeout", expected, mask, full_actual)

\* ex.what(): "<Kind> mismatch! Expected:0x.. Got:0x.. (0x..)"
What(e) == <<e.kind, e.expected, BitAnd(e.actual, e.mask), e.actual>>

\* does `catch (std::exception const&)` match e
IsStdException(e) ==
    e.kind \in {"target_std_exception", "WriteVerifyFailure",
                "ReadVerifyFailure", "PollReadTimeout"}

\* which underlying access of the call raises (0: none), and what
Faults(n) == {[at |-> 0, kind |-> "none"]} \cup
             { [at |-> k, kind |-> kd] : k \in 1 .. n,
                                        kd \in {"target_std_exception", "target_non_std"} }
FaultExc(fault) == Exc(fault.kind, 0, 0, 0)

VARIABLES
    pc,          \* caller's position: "idle", "done", "poll_eval", "poll_sleep", "dead"
    regs,        \* the device registers behind the target
    dropMask,    \* bits the device's write does not store (0: the dummy target)
    interposer,  \* the wrapper's interposer pointer: "null" or "ip"
    ndebug,      \* build configuration: TRUE when assert() is compiled out
    sameType,    \* instantiation: TRUE when DataType is the same type as AddressType
    op,          \* the wrapper call in progress or just finished
    events,      \* hook calls received by the interposer during the call
    accesses,    \* underlying target read/write calls made during the call
    out,         \* the caller's out buffer
    thrown,      \* what left the call: NoExc on normal return
    nops,        \* wrapper calls made so far
    clock,       \* steady_clock: time since the current call was entered (ms)
    poll,        \* the poller invocation of a pollRead in progress
    other,       \* what a second caller wrote between a readModifyWrite's read and write
    chunker,     \* a chunkify call in progress: its loop variable and the callbacks made
    twin,        \* a second wrapper, without interposer, given the same calls on a copy of the target
    pending,     \* earlier operations of the wrapper left with a start and no terminal event
    registry     \* the default interposer, the interposer instances and the wrappers constructed

vars == <<pc, regs, dropMask, interposer, ndebug, sameType, op, events, accesses, out, thrown, nops,
          clock, poll, other, chunker, twin, pending, registry>>

(***************************************************************************)
(* The target: SimpleDummyRegisterTarget, or a device whose write drops    *)
(* the bits of dropMask.  A call threads a machine state                   *)
(*   m = [regs, acc, out, exc, val]                                        *)
(* an exception in m.exc makes every later statement a no-op (unwinding).  *)
(***************************************************************************)
Machine(r, o) == [regs |-> r, acc |-> <<>>, out |-> o, exc |-> NoExc, val |-> 0]

Access(k, a, v, ok) == [k |-> k, a |-> a, v |-> v, ok |-> ok]

\* a failing write swallowed: the batch goes on
TargetWrite_Swallowed(m, addr, data, fault, drop) ==
    IF m.exc # NoExc THEN m
    ELSE IF Len(m.acc) + 1 = fault.at
         THEN [m EXCEPT !.acc = Append(@, Access("w", addr, data, FALSE))]
         ELSE [m EXCEPT !.acc = Append(@, Access("w", addr, data, TRUE)),
                        !.regs = [@ EXCEPT ![addr] = BitAnd(data, BitNot(drop))]]

TargetWrite(m, addr, data, fault, drop) ==
    IF m.exc # NoExc THEN m
    ELSE IF Len(m.acc) + 1 = fault.at
         THEN [m EXCEPT !.acc = Append(@, Access("w", addr, data, FALSE)),
                        !.exc = FaultExc(fault)]
         ELSE [m EXCEPT !.acc = Append(@, Access("w", addr, data, TRUE)),
                        !.regs = [@ EXCEPT ![addr] = BitAnd(data, BitNot(drop))]]

TargetRead(m, addr, fault) ==
    IF m.exc # NoExc THEN m
    ELSE IF Len(m.acc) + 1 = fault.at
         THEN [m EXCEPT !.acc = Append(@, Access("r", addr, 0, FALSE)),
                        !.exc = FaultExc(fault)]
         ELSE [m EXCEPT !.acc = Append(@, Access("r", addr, m.regs[addr], TRUE)),
                        !.val = m.regs[addr]]

(***************************************************************************)
(* IRegisterTarget default implementations                                 *)
(***************************************************************************)
\* the bits outside the mask not written back
ReadModifyWriteImpl_Overwrite(m, addr, new_data, mask, fault, drop) ==
    LET m1 == TargetRead(m, addr, fault)
    IN TargetWrite(m1, addr, BitAnd(new_data, mask), fault, drop)

ReadModifyWriteImpl(m, addr, new_data, mask, fault, drop) ==
    LET m1 == TargetRead(m, addr, fault)
        v  == BitOr(BitAnd(m1.val, BitNot(mask)), BitAnd(new_data, mask))
    IN TargetWrite(m1, addr, v, fault, drop)

RECURSIVE SeqWriteLoop(_, _, _, _, _, _, _)
SeqWriteLoop(m, start_addr, data, increment, i, fault, drop) ==
    IF i >= Len(data) \/ m.exc # NoExc THEN m
    ELSE SeqWriteLoop(TargetWrite(m, SeqAddr(start_addr, increment, i), data[i + 1], fault, drop),
                      start_addr, data, increment, i + 1, fault, drop)

SeqWriteImpl(m, start_addr, data, increment, fault, drop) ==
    SeqWriteLoop(m, start_addr, data, increment, 0, fault, drop)

\* out_data[i] = read(...): the store happens only when the read returned
StoreOut(m0, m1, i) ==
    IF m1.exc # NoExc THEN m1 ELSE [m1 EXCEPT !.out[i + 1] = m1.val]

RECURSIVE SeqReadLoop(_, _, _, _, _)
SeqReadLoop(m, start_addr, increment, i, fault) ==
    IF i >= Len(m.out) \/ m.exc # NoExc THEN m
    ELSE SeqReadLoop(StoreOut(m, TargetRead(m, SeqAddr(start_addr, increment, i), fault), i),
                     start_addr, increment, i + 1, fault)

SeqReadImpl(m, start_addr, increment, fault) ==
    SeqReadLoop(m, start_addr, increment, 0, fault)

RECURSIVE FifoWriteLoop(_, _, _, _, _, _)
FifoWriteLoop(m, fifo_addr, data, i, fault, drop) ==
    IF i >= Len(data) \/ m.exc # NoExc THEN m
    ELSE FifoWriteLoop(TargetWrite(m, fifo_addr, data[i + 1], fault, drop),
                       fifo_addr, data, i + 1, fault, drop)

\* the fifo address advanced like a sequential one
FifoWriteImpl_Advancing(m, fifo_addr, data, fault, drop) ==
    SeqWriteImpl(m, fifo_addr, data, 4, fault, drop)

FifoWriteImpl(m, fifo_addr, data, fault, drop) ==
    FifoWriteLoop(m, fifo_addr, data, 0, fault, drop)

RECURSIVE FifoReadLoop(_, _, _, _)
FifoReadLoop(m, fifo_addr, i, fault) ==
    IF i >= Len(m.out) \/ m.exc # NoExc THEN m
    ELSE FifoReadLoop(StoreOut(m, TargetRead(m, fifo_addr, fault), i), fifo_addr, i + 1, fault)

\* the address advanced by 4 per element, as a sequential read does
FifoReadImpl_Advancing(m, fifo_addr, fault) == SeqReadImpl(m, fifo_addr, 4, fault)

FifoReadImpl(m, fifo_addr, fault) == FifoReadLoop(m, fifo_addr, 0, fault)

RECURSIVE CompWriteLoop(_, _, _, _, _)
CompWriteLoop(m, addr_data, i, fault, drop) ==
    IF i >= Len(addr_data) \/ m.exc # NoExc THEN m
    ELSE CompWriteLoop(TargetWrite(m, addr_data[i + 1][1], addr_data[i + 1][2], fault, drop),
                       addr_data, i + 1, fault, drop)

\* the first pair left out
CompWriteImpl_SkipFirst(m, addr_data, fault, drop) == CompWriteLoop(m, addr_data, 1, fault, drop)

CompWriteImpl(m, addr_data, fault, drop) == CompWriteLoop(m, addr_data, 0, fault, drop)

\* out_data[i] = ... with i past the end of the span is undefined behaviour:
\* the store may crash the process ("crash") or land outside the span ("silent")
StoreOutUnchecked(m0, m1, i, ub) ==
    IF m1.exc # NoExc THEN m1
    ELSE IF i < Len(m1.out) THEN [m1 EXCEPT !.out[i + 1] = m1.val]
    ELSE IF ub = "crash" THEN [m1 EXCEPT !.exc = Crashed]
    ELSE m1

RECURSIVE CompReadLoop(_, _, _, _, _)
CompReadLoop(m, addresses, i, fault, ub) ==
    IF i >= Len(addresses) \/ m.exc # NoExc THEN m
    ELSE CompReadLoop(StoreOutUnchecked(m, TargetRead(m, addresses[i + 1], fault), i, ub),
                      addresses, i + 1, fault, ub)

\* the size check forgotten
CompReadImpl_NoAssert(m, addresses, fault, nd, ub) ==
    CompReadLoop(m, addresses, 0, fault, ub)

\* the size check raising an exception instead of asserting
CompReadImpl_Throws(m, addresses, fault, nd, ub) ==
    IF Len(addresses) # Len(m.out) THEN [m EXCEPT !.exc = TargetStdExc]
    ELSE CompReadLoop(m, addresses, 0, fault, ub)

\* assert(addresses.size() == out_data.size()) aborts unless compiled out
CompReadImpl(m, addresses, fault, nd, ub) ==
    IF ~nd /\ Len(addresses) # Len(m.out) THEN [m EXCEPT !.exc = Aborted]
    ELSE CompReadLoop(m, addresses, 0, fault, ub)

\* if (cond) throw e;
Throw(m, cond, e) == IF m.exc = NoExc /\ cond THEN [m EXCEPT !.exc = e] ELSE m

\* the read-back compared without the mask
WriteVerifyBody_Unmasked(m, addr, data, mask, fault, drop) ==
    LET m1 == TargetWrite(m, addr, data, fault, drop)
        m2 == TargetRead(m1, addr, fault)
        reg_val == m2.val
        expected_val == BitAnd(data, mask)
    IN Throw(m2, reg_val # expected_val,
             WriteVerifyFailureException(expected_val, mask, reg_val))

\* the old value written back when the read-back does not match
WriteVerifyBody_Rollback(m, addr, data, mask, fault, drop) ==
    LET m1 == TargetWrite(m, addr, data, fault, drop)
        m2 == TargetRead(m1, addr, fault)
        reg_val == m2.val
        expected_val == BitAnd(data, mask)
        m3 == IF BitAnd(reg_val, mask) # expected_val
              THEN TargetWrite(m2, addr, m.regs[addr], fault, 0)
              ELSE m2
    IN Throw(m3, BitAnd(reg_val, mask) # expected_val,
             WriteVerifyFailureException(expected_val, mask, reg_val))

WriteVerifyBody(m, addr, data, mask, fault, drop) ==
    LET m1 == TargetWrite(m, addr, data, fault, drop)
        m2 == TargetRead(m1, addr, fault)
        reg_val == m2.val
        expected_val == BitAnd(data, mask)
    IN Throw(m2, BitAnd(reg_val, mask) # expected_val,
             WriteVerifyFailureException(expected_val, mask, reg_val))

\* the expected value compared without the mask
ReadVerifyBody_Unmasked(m, addr, expected, mask, fault) ==
    LET m1 == TargetRead(m, addr, fault)
        reg_val == m1.val
    IN Throw(m1, BitAnd(reg_val, mask) # expected,
             ReadVerifyFailureException(expected, mask, reg_val))

ReadVerifyBody(m, addr, expected, mask, fault) ==
    LET m1 == TargetRead(m, addr, fault)
        reg_val == m1.val
        expected_val == BitAnd(expected, mask)
    IN Throw(m1, BitAnd(reg_val, mask) # expected_val,
             ReadVerifyFailureException(expected_val, mask, reg_val))

\* the polled value compared without the mask
PollPredicate_Unmasked(reg_val, expected_val, mask) == reg_val = expected_val

\* the pollRead lambda's result: (reg_val & mask) == expected_val
PollPredicate(reg_val, expected_val, mask) == BitAnd(reg_val, mask) = expected_val

(***************************************************************************)
(* FluentRegisterTarget: the interposer hooks.  Every hook is skipped when *)
(* the interposer pointer is null.                                         *)
(***************************************************************************)
\* the wrapped target: SimpleDummyRegisterTarget("dummy").  Its getName()
\* overrides the virtual one; its getDomain() is a static member that hides
\* but does not override IRegisterTarget::getDomain(), so a call through the
\* wrapper's IRegisterTarget pointer returns the base class's value
getName == "dummy"
getDomain == "IRegisterTarget"
\* the first argument of every hook call is this string literal
HookDomain == "FluentRegisterTarget"

Event(ev, val) == [ev |-> ev, val |-> val, domain |-> HookDomain, instance |-> getName]

Hook(ip, evs) == IF ip = "null" THEN <<>> ELSE evs

opStart(ip, descr) == Hook(ip, <<Event("start", descr)>>)
opEnd(ip) == Hook(ip, <<Event("end", <<>>)>>)
opError(ip, e) == Hook(ip, <<Event("error", What(e))>>)
opExtra(ip, vals) == Hook(ip, [i \in 1 .. Len(vals) |-> Event("extra", vals[i])])

\* std::format("0x{:0{}x}", v, sizeof(T) * 2): the digits printed and the value
\* sizeof(DataType) * 2: DataType is AddressType in a same-type instantiation
DataDigits == IF sameType THEN (AddrBits \div 8) * 2 ELSE (DataBits \div 8) * 2

FmtData(span) == [i \in 1 .. Len(span) |-> <<DataDigits, span[i]>>]
FmtAddr(span) == [i \in 1 .. Len(span) |-> <<(AddrBits \div 8) * 2, span[i]>>]
FmtPair(span) == [i \in 1 .. Len(span) |->
                     <<(AddrBits \div 8) * 2, span[i][1], DataDigits, span[i][2]>>]

\* the address overload gone in a same-type instantiation, nothing in its place
FmtAddresses_DroppedWhenSame(span) == IF sameType THEN <<>> ELSE FmtAddr(span)

\* opExtra(addresses): the span<AddressType const> overload exists only when
\* the types differ (requires !is_same_v); in a same-type instantiation the
\* call resolves to the span<DataType const> overload
FmtAddresses(span) == IF sameType THEN FmtData(span) ELSE FmtAddr(span)

\* try { body } catch (std::exception const& ex) { opError(ex.what()); throw; }
\* followed, when the body returned, by the trailing extras and opEnd()
TryCatch(ip, m, after) ==
    IF m.exc = NoExc THEN opExtra(ip, after) \o opEnd(ip)
    ELSE IF IsStdException(m.exc) THEN opError(ip, m.exc)
    ELSE <<>>

\* where the caller is after the call: a process that aborted or crashed is gone
After(m) == IF m.exc.kind \in {"abort", "crash"} THEN "dead" ELSE "done"

Op(kind, addr, data, mask, span, increment, fault) ==
    [kind |-> kind, addr |-> addr, data |-> data, mask |-> mask,
     span |-> span, increment |-> increment, fault |-> fault]

\* the poller state of a pollRead; reg_val is the lambda's captured variable
PollState(p, start_timestamp, evals, sleeps, reg_val, late) ==
    [poller |-> p, start_timestamp |-> start_timestamp, evals |-> evals,
     sleeps |-> sleeps, reg_val |-> reg_val, late |-> late]

NoPoll == PollState(BasicPoller(0, 0, 0), 0, 0, 0, 0, 0)

\* the second caller wrote nothing
NoOther == -1

\* the second wrapper's copy of the registers and what its last call did
Twin(r, acc, o, exc, n) == [regs |-> r, accesses |-> acc, out |-> o, thrown |-> exc, nops |-> n]
NoTwin == Twin([a \in Addrs |-> 0], <<>>, <<>>, NoExc, 0)

\* default_interposer (0: nullptr), the instances made and those destroyed,
\* each wrapper's interposer pointer, and where the last hook call went
Registry(default_interposer, made, destroyed, wrappers, hook) ==
    [default_interposer |-> default_interposer, made |-> made, destroyed |-> destroyed,
     wrappers |-> wrappers, hook |-> hook]
\* a wrapper's interposer member and the constructor that set it
Wrapper(ip, explicit) == [interposer |-> ip, explicit |-> explicit]
\* the hook call wrapper w made, the instance it ran on (0: no call was made)
\* and whether the wrapper's pointer was null or pointed to a living instance
Landed(w, at, alive) == [wrapper |-> w, at |-> at, alive |-> alive]
NoRegistry == Registry(0, 0, {}, <<>>, Landed(0, 0, TRUE))
\* a call through a pointer whose object was destroyed ended the process
Segfault == 0 - 1

\* chunkify's loop variable pos, the fn(chunk, pos) calls made so far, and
\* whether their number is odd (calls past the ones kept are still counted)
Chunker(pos, calls, odd) == [pos |-> pos, calls |-> calls, odd |-> odd]
NoChunker == Chunker(0, <<>>, FALSE)

NoFault == [at |-> 0, kind |-> "none"]
NoOp == Op("none", 0, 0, 0, <<>>, 0, NoFault)

\* a failure the error hook was told of not rethrown
FinishAt_HookSwallows(o, pre, m, after, t) ==
    /\ op' = o
    /\ events' = opStart(interposer, o.kind) \o pre \o TryCatch(interposer, m, after)
    /\ accesses' = m.acc
    /\ regs' = m.regs
    /\ out' = m.out
    /\ thrown' = IF interposer = "ip" /\ IsStdException(m.exc) THEN NoExc ELSE m.exc
    /\ pc' = After(m)
    /\ nops' = nops + 1
    /\ clock' = t
    /\ UNCHANGED <<dropMask, interposer, ndebug, sameType, poll, other, chunker, twin, pending, registry>>

\* the state a finished call leaves behind; t is the time the call took
FinishAt(o, pre, m, after, t) ==
    /\ op' = o
    /\ events' = opStart(interposer, o.kind) \o pre \o TryCatch(interposer, m, after)
    /\ accesses' = m.acc
    /\ regs' = m.regs
    /\ out' = m.out
    /\ thrown' = m.exc
    /\ pc' = After(m)
    /\ nops' = nops + 1
    /\ clock' = t
    /\ UNCHANGED <<dropMask, interposer, ndebug, sameType, poll, other, chunker, twin, pending, registry>>

\* target accesses take no time on the model's clock
Finish(o, pre, m, after) == FinishAt(o, pre, m, after, 0)

Constructed ==
    /\ pc = "idle"
    /\ regs = [a \in Addrs |-> 0]
    /\ dropMask \in {0, 1}
    /\ interposer \in {"null", "ip"}
    /\ ndebug \in BOOLEAN
    /\ op = NoOp
    /\ events = <<>>
    /\ accesses = <<>>
    /\ out = <<>>
    /\ thrown = NoExc
    /\ nops = 0
    /\ clock = 0
    /\ poll = NoPoll
    /\ other = NoOther
    /\ chunker = NoChunker
    /\ twin = NoTwin
    /\ pending = 0
    /\ registry = NoRegistry

\* AddressType = uint16_t, DataType = uint8_t
Init == Constructed /\ sameType = FALSE

\* either instantiation: DataType = uint8_t, or DataType = AddressType
CompInit == Constructed /\ dropMask = 0 /\ sameType \in BOOLEAN

\* the caller is between calls and has calls left to make
Idle == pc = "idle" /\ nops < MaxOps

(***************************************************************************)
(* Wrapper operations                                                      *)
(***************************************************************************)
Write ==
    /\ Idle
    /\ \E addr \in RegAddrs, data \in DataVals, fault \in Faults(1) :
         LET m == TargetWrite(Machine(regs, <<>>), addr, data, fault, dropMask)
         IN Finish(Op("write", addr, data, 0, <<>>, 0, fault), <<>>, m, <<>>)

\* the extra event emitted before the underlying read, with out_data as it was
Read_ExtraBefore ==
    /\ Idle
    /\ \E addr \in RegAddrs, fault \in Faults(1) :
         LET m0 == Machine(regs, <<Untouched>>)
             m  == StoreOut(m0, TargetRead(m0, addr, fault), 0)
         IN Finish(Op("read", addr, 0, 0, <<>>, 0, fault),
                   opExtra(interposer, FmtData(m0.out)), m, <<>>)

Read ==
    /\ Idle
    /\ \E addr \in RegAddrs, fault \in Faults(1) :
         LET m0 == Machine(regs, <<Untouched>>)
             m  == StoreOut(m0, TargetRead(m0, addr, fault), 0)
         IN Finish(Op("read", addr, 0, 0, <<>>, 0, fault), <<>>, m, FmtData(m.out))

ReadModifyWrite ==
    /\ Idle
    /\ \E addr \in RegAddrs, new_data \in DataVals, mask \in MaskVals, fault \in Faults(2) :
         LET m == ReadModifyWriteImpl(Machine(regs, <<>>), addr, new_data, mask, fault, dropMask)
         IN Finish(Op("readModifyWrite", addr, new_data, mask, <<>>, 0, fault), <<>>, m, <<>>)

\* the extra events emitted after the underlying call, as the reads do
SeqWrite_ExtrasAfter ==
    /\ Idle
    /\ \E start_addr \in StartAddrs, data \in SpansUpTo(DataSpans, MaxLen), increment \in Increments :
       \E fault \in Faults(Len(data)) :
         LET m == SeqWriteImpl(Machine(regs, <<>>), start_addr, data, increment, fault, dropMask)
         IN Finish(Op("seqWrite", start_addr, 0, 0, data, increment, fault),
                   <<>>, m, FmtData(data))

\* seqWrite(start_addr, data, increment) with start_addr taken from starts
SeqWriteFrom(starts) ==
    /\ Idle
    /\ \E start_addr \in starts, data \in SpansUpTo(DataSpans, MaxLen), increment \in Increments :
       \E fault \in Faults(Len(data)) :
         LET m == SeqWriteImpl(Machine(regs, <<>>), start_addr, data, increment, fault, dropMask)
         IN Finish(Op("seqWrite", start_addr, 0, 0, data, increment, fault),
                   opExtra(interposer, FmtData(data)), m, <<>>)

SeqWrite == SeqWriteFrom(StartAddrs)

\* seqRead(start_addr, out_data, increment) with start_addr taken from starts
SeqReadFrom(starts) ==
    /\ Idle
    /\ \E start_addr \in starts, n \in 0 .. MaxLen, increment \in Increments :
       \E fault \in Faults(n) :
         LET m == SeqReadImpl(Machine(regs, [i \in 1 .. n |-> Untouched]), start_addr, increment, fault)
         IN Finish(Op("seqRead", start_addr, 0, 0, [i \in 1 .. n |-> Untouched], increment, fault),
                   <<>>, m, FmtData(m.out))

SeqRead == SeqReadFrom(StartAddrs)

\* the same two from a start address close to the largest address
SeqWriteWrap == SeqWriteFrom(WrapStartAddrs)

SeqReadWrap == SeqReadFrom(WrapStartAddrs)

FifoWrite ==
    /\ Idle
    /\ \E fifo_addr \in StartAddrs, data \in SpansUpTo(DataSpans, MaxLen) :
       \E fault \in Faults(Len(data)) :
         LET m == FifoWriteImpl(Machine(regs, <<>>), fifo_addr, data, fault, dropMask)
         IN Finish(Op("fifoWrite", fifo_addr, 0, 0, data, 0, fault),
                   opExtra(interposer, FmtData(data)), m, <<>>)

FifoRead ==
    /\ Idle
    /\ \E fifo_addr \in StartAddrs, n \in 0 .. MaxLen :
       \E fault \in Faults(n) :
         LET m == FifoReadImpl(Machine(regs, [i \in 1 .. n |-> Untouched]), fifo_addr, fault)
         IN Finish(Op("fifoRead", fifo_addr, 0, 0, [i \in 1 .. n |-> Untouched], 0, fault),
                   <<>>, m, FmtData(m.out))

CompWrite ==
    /\ Idle
    /\ \E addr_data \in SpansUpTo(PairSpans, MaxLen) :
       \E fault \in Faults(Len(addr_data)) :
         LET m == CompWriteImpl(Machine(regs, <<>>), addr_data, fault, dropMask)
         IN Finish(Op("compWrite", 0, 0, 0, addr_data, 0, fault),
                   opExtra(interposer, FmtPair(addr_data)), m, <<>>)

\* op.span holds the addresses, op.data the length of the out span
CompRead ==
    /\ Idle
    /\ \E addresses \in SpansUpTo(AddrSpans, MaxLen), n \in 0 .. MaxLen, ub \in {"crash", "silent"} :
       \E fault \in Faults(Len(addresses)) :
         /\ n \in {Len(addresses) - 1, Len(addresses), Len(addresses) + 1}
         /\ LET m == CompReadImpl(Machine(regs, [i \in 1 .. n |-> Untouched]), addresses, fault, ndebug, ub)
            IN Finish(Op("compRead", 0, n, 0, addresses, 0, fault),
                      opExtra(interposer, FmtAddresses(addresses)), m, FmtData(m.out))

\* the value read back reported in an extra event, as read does
WriteVerify_ExtraReadBack ==
    /\ Idle
    /\ \E addr \in RegAddrs, data \in DataVals, mask \in MaskVals, fault \in Faults(2) :
         LET m == WriteVerifyBody(Machine(regs, <<>>), addr, data, mask, fault, dropMask)
         IN Finish(Op("writeVerify", addr, data, mask, <<>>, 0, fault), <<>>, m,
                   FmtData(<<m.val>>))

WriteVerify ==
    /\ Idle
    /\ \E addr \in RegAddrs, data \in DataVals, mask \in MaskVals, fault \in Faults(2) :
         LET m == WriteVerifyBody(Machine(regs, <<>>), addr, data, mask, fault, dropMask)
         IN Finish(Op("writeVerify", addr, data, mask, <<>>, 0, fault), <<>>, m, <<>>)

ReadVerify ==
    /\ Idle
    /\ \E addr \in RegAddrs, expected \in DataVals, mask \in MaskVals, fault \in Faults(1) :
         LET m == ReadVerifyBody(Machine(regs, <<>>), addr, expected, mask, fault)
         IN Finish(Op("readVerify", addr, expected, mask, <<>>, 0, fault), <<>>, m, <<>>)

\* null(msg): opStart, opEnd
Null ==
    /\ Idle
    /\ Finish(Op("null", 0, 0, 0, <<>>, 0, NoFault), <<>>, Machine(regs, <<>>), <<>>)

\* delay(d, msg): opStart, sleep_for(d), opEnd
Delay ==
    /\ Idle
    /\ \E d \in Delays, over \in 0 .. MaxOversleep :
         FinishAt(Op("delay", 0, d, 0, <<>>, 0, NoFault), <<>>, Machine(regs, <<>>), <<>>, d + over)

\* the annotation reported as an operation: opStart and opEnd around it
Annotate_AsOperation(kind) ==
    /\ op' = Op(kind, 0, 0, 0, <<>>, 0, NoFault)
    /\ events' = opStart(interposer, kind) \o Hook(interposer, <<Event(kind, kind)>>)
                      \o opEnd(interposer)
    /\ accesses' = <<>>
    /\ out' = <<>>
    /\ thrown' = NoExc
    /\ pc' = "done"
    /\ nops' = nops + 1
    /\ UNCHANGED <<regs, dropMask, interposer, ndebug, sameType, clock, poll, other, chunker, twin, pending, registry>>

\* seq(msg) / step(msg): one annotation hook call, nothing else
Annotate(kind) ==
    /\ op' = Op(kind, 0, 0, 0, <<>>, 0, NoFault)
    /\ events' = Hook(interposer, <<Event(kind, kind)>>)
    /\ accesses' = <<>>
    /\ out' = <<>>
    /\ thrown' = NoExc
    /\ pc' = "done"
    /\ nops' = nops + 1
    /\ UNCHANGED <<regs, dropMask, interposer, ndebug, sameType, clock, poll, other, chunker, twin, pending, registry>>

SeqAnnotation == Idle /\ Annotate("seq")

StepAnnotation == Idle /\ Annotate("step")

(***************************************************************************)
(* delay, stepped: the caller is inside sleep_for between the two hooks.   *)
(***************************************************************************)
\* delay(d, msg) up to the sleep: opStart
DelayStart ==
    /\ Idle
    /\ \E d \in Delays :
          op' = Op("delay", 0, d, 0, <<>>, 0, NoFault)
    /\ events' = opStart(interposer, "delay")
    /\ accesses' = <<>>
    /\ out' = <<>>
    /\ thrown' = NoExc
    /\ pc' = "sleeping"
    /\ nops' = nops + 1
    /\ clock' = 0
    /\ UNCHANGED <<regs, dropMask, interposer, ndebug, sameType, poll, other, chunker, twin, pending, registry>>

\* the end hook before the sleep
DelayWake_EndFirst ==
    /\ pc = "sleeping"
    /\ events' = events \o opEnd(interposer)
    /\ pc' = "done"
    /\ UNCHANGED <<regs, dropMask, interposer, ndebug, sameType, op, accesses, out, thrown, nops,
                   clock, poll, other, chunker, twin, pending, registry>>

\* sleep_for(d) returns, no earlier than d; then opEnd
DelayWake ==
    /\ pc = "sleeping"
    /\ \E over \in 0 .. MaxOversleep :
          clock' = clock + op.data + over
    /\ events' = events \o opEnd(interposer)
    /\ pc' = "done"
    /\ UNCHANGED <<regs, dropMask, interposer, ndebug, sameType, op, accesses, out, thrown, nops,
                   poll, other, chunker, twin, pending, registry>>

(***************************************************************************)
(* pollRead with a BasicPoller, stepped: the poller sleeps, and the device *)
(* register may change while it does.                                      *)
(***************************************************************************)
\* pollRead leaves: success, timeout or a failure of the read
PollFinish(m) ==
    /\ events' = events \o TryCatch(interposer, m, <<>>)
    /\ thrown' = m.exc
    /\ pc' = After(m)

\* the timeout tested before the first evaluation (a while loop)
PollReadStart_TestFirst ==
    /\ Idle
    /\ \E addr \in RegAddrs, expected \in PollExpected, mask \in PollMasks, p \in Pollers,
          fault \in Faults(2), over \in 0 .. MaxOversleep :
         /\ op' = Op("pollRead", addr, expected, mask, <<>>, 0, fault)
         /\ clock' = p.initial_delay + over
         /\ poll' = PollState(p, p.initial_delay + over, 0, 0, 0, over)
         /\ IF 0 < p.timeout
            THEN /\ events' = opStart(interposer, "pollRead")
                 /\ thrown' = NoExc
                 /\ pc' = "poll_eval"
            ELSE LET m == Throw(Machine(regs, <<>>), TRUE,
                                PollReadTimeoutException(BitAnd(expected, mask), mask, 0))
                 IN /\ events' = opStart(interposer, "pollRead") \o TryCatch(interposer, m, <<>>)
                    /\ thrown' = m.exc
                    /\ pc' = After(m)
    /\ accesses' = <<>>
    /\ out' = <<>>
    /\ nops' = nops + 1
    /\ UNCHANGED <<regs, dropMask, interposer, ndebug, sameType, other, chunker, twin, pending, registry>>

\* the start timestamp taken before the initial sleep
PollReadStart_TimestampFirst ==
    /\ Idle
    /\ \E addr \in RegAddrs, expected \in PollExpected, mask \in PollMasks, p \in Pollers,
          fault \in Faults(2), over \in 0 .. MaxOversleep :
         /\ op' = Op("pollRead", addr, expected, mask, <<>>, 0, fault)
         /\ events' = opStart(interposer, "pollRead")
         /\ clock' = p.initial_delay + over
         /\ poll' = PollState(p, 0, 0, 0, 0, over)
    /\ accesses' = <<>>
    /\ out' = <<>>
    /\ thrown' = NoExc
    /\ pc' = "poll_eval"
    /\ nops' = nops + 1
    /\ UNCHANGED <<regs, dropMask, interposer, ndebug, sameType, other, chunker, twin, pending, registry>>

\* opStart; expected_val; reg_val = {}; poller(...): sleep_for(initial_delay);
\* start_timestamp = now()
PollReadStart ==
    /\ Idle
    /\ \E addr \in RegAddrs, expected \in PollExpected, mask \in PollMasks, p \in Pollers,
          fault \in Faults(2), over \in 0 .. MaxOversleep :
         /\ op' = Op("pollRead", addr, expected, mask, <<>>, 0, fault)
         /\ events' = opStart(interposer, "pollRead")
         /\ clock' = p.initial_delay + over
         /\ poll' = PollState(p, p.initial_delay + over, 0, 0, 0, over)
    /\ accesses' = <<>>
    /\ out' = <<>>
    /\ thrown' = NoExc
    /\ pc' = "poll_eval"
    /\ nops' = nops + 1
    /\ UNCHANGED <<regs, dropMask, interposer, ndebug, sameType, other, chunker, twin, pending, registry>>

\* one more recheck sleep taken before success is returned
PollEval_SleepsBeforeReturn ==
    /\ pc = "poll_eval"
    /\ LET m == TargetRead([Machine(regs, <<>>) EXCEPT !.acc = accesses], op.addr, op.fault)
           expected_val == BitAnd(op.data, op.mask)
       IN /\ accesses' = m.acc
          /\ IF m.exc # NoExc
             THEN /\ PollFinish(m)
                  /\ poll' = [poll EXCEPT !.evals = @ + 1]
                  /\ UNCHANGED clock
             ELSE IF PollPredicate(m.val, expected_val, op.mask)
                  THEN /\ PollFinish(m)
                       /\ poll' = [poll EXCEPT !.evals = @ + 1, !.reg_val = m.val,
                                               !.sleeps = @ + 1]
                       /\ clock' = clock + poll.poller.wait_delay
                  ELSE /\ pc' = "poll_sleep"
                       /\ poll' = [poll EXCEPT !.evals = @ + 1, !.reg_val = m.val]
                       /\ UNCHANGED <<events, thrown, clock>>
    /\ UNCHANGED <<regs, dropMask, interposer, ndebug, sameType, op, out, nops, other, chunker, twin, pending, registry>>

\* if (fn()) return true;  fn: reg_val = target->read(addr);
\*                             return (reg_val & mask) == expected_val;
PollEval ==
    /\ pc = "poll_eval"
    /\ LET m == TargetRead([Machine(regs, <<>>) EXCEPT !.acc = accesses], op.addr, op.fault)
           expected_val == BitAnd(op.data, op.mask)
       IN /\ accesses' = m.acc
          /\ IF m.exc # NoExc
             THEN /\ PollFinish(m)
                  /\ poll' = [poll EXCEPT !.evals = @ + 1]
             ELSE /\ poll' = [poll EXCEPT !.evals = @ + 1, !.reg_val = m.val]
                  /\ IF PollPredicate(m.val, expected_val, op.mask)
                     THEN PollFinish(m)
                     ELSE /\ pc' = "poll_sleep"
                          /\ UNCHANGED <<events, thrown>>
    /\ UNCHANGED <<regs, dropMask, interposer, ndebug, sameType, op, out, nops, clock, other, chunker, twin, pending, registry>>

\* the loop going on while now() <= start_timestamp + timeout
PollSleep_Inclusive ==
    /\ pc = "poll_sleep"
    /\ \E over \in 0 .. MaxOversleep :
         LET now == clock + poll.poller.wait_delay + over
         IN /\ clock' = now
            /\ poll' = [poll EXCEPT !.sleeps = @ + 1, !.late = @ + over]
            /\ IF now <= poll.start_timestamp + poll.poller.timeout
               THEN /\ pc' = "poll_eval"
                    /\ UNCHANGED <<events, thrown>>
               ELSE PollFinish(Throw(Machine(regs, <<>>), TRUE,
                                     PollReadTimeoutException(BitAnd(op.data, op.mask),
                                                              op.mask, poll.reg_val)))
    /\ UNCHANGED <<regs, dropMask, interposer, ndebug, sameType, op, accesses, out, nops, other, chunker, twin, pending, registry>>

\* sleep_for(wait_delay); while (now() < start_timestamp + timeout);
\* return false  ->  throw PollReadTimeoutException(expected_val, mask, reg_val)
PollSleep ==
    /\ pc = "poll_sleep"
    /\ \E over \in 0 .. MaxOversleep :
         LET now == clock + poll.poller.wait_delay + over
         IN /\ clock' = now
            /\ poll' = [poll EXCEPT !.sleeps = @ + 1, !.late = @ + over]
            /\ IF now < poll.start_timestamp + poll.poller.timeout
               THEN /\ pc' = "poll_eval"
                    /\ UNCHANGED <<events, thrown>>
               ELSE PollFinish(Throw(Machine(regs, <<>>), TRUE,
                                     PollReadTimeoutException(BitAnd(op.data, op.mask),
                                                              op.mask, poll.reg_val)))
    /\ UNCHANGED <<regs, dropMask, interposer, ndebug, sameType, op, accesses, out, nops, other, chunker, twin, pending, registry>>

\* the device changes the polled register while the poller sleeps
DeviceChange ==
    /\ pc = "poll_sleep"
    /\ \E v \in DeviceVals :
         /\ regs[op.addr] # v
         /\ regs' = [regs EXCEPT ![op.addr] = v]
    /\ UNCHANGED <<pc, dropMask, interposer, ndebug, sameType, op, events, accesses, out, thrown, nops,
                   clock, poll, other, chunker, twin, pending, registry>>

(***************************************************************************)
(* pollRead with a poller of the caller's own: any callable that takes the *)
(* predicate and returns a bool.  It evaluates the predicate up to k times *)
(* (k may be 0), stops at the first true, and returns what it saw last.    *)
(***************************************************************************)
\* the lambda's captures and result: the machine, reg_val, and fn()'s value
Polling(m, reg_val, success) == [m |-> m, reg_val |-> reg_val, success |-> success]

\* fn(): reg_val = target->read(addr); return (reg_val & mask) == expected_val;
PollLambda(st, addr, expected_val, mask, fault) ==
    LET m1 == TargetRead(st.m, addr, fault)
    IN IF m1.exc # NoExc THEN Polling(m1, st.reg_val, FALSE)
       ELSE Polling(m1, m1.val, PollPredicate(m1.val, expected_val, mask))

RECURSIVE CustomPoller(_, _, _, _, _, _)
CustomPoller(st, addr, expected_val, mask, fault, k) ==
    IF k = 0 \/ st.success \/ st.m.exc # NoExc THEN st
    ELSE CustomPoller(PollLambda(st, addr, expected_val, mask, fault),
                      addr, expected_val, mask, fault, k - 1)

\* DataType reg_val = {}; success = poller(lambda);
\* if (!success) throw PollReadTimeoutException(expected_val, mask, reg_val);
PollReadBody(m, addr, expected, mask, fault, k) ==
    LET expected_val == BitAnd(expected, mask)
        st == CustomPoller(Polling(m, 0, FALSE), addr, expected_val, mask, fault, k)
    IN Throw(st.m, ~st.success, PollReadTimeoutException(expected_val, mask, st.reg_val))

\* pollRead(poller, addr, expected, mask) with such a poller
PollReadCustom ==
    /\ Idle
    /\ \E addr \in RegAddrs, expected \in PollExpected, mask \in PollMasks,
          fault \in Faults(2), k \in 0 .. MaxOps :
         LET m == PollReadBody(Machine(regs, <<>>), addr, expected, mask, fault, k)
         IN Finish(Op("pollRead", addr, expected, mask, <<>>, 0, fault), <<>>, m, <<>>)

(***************************************************************************)
(* readModifyWrite with a second caller on the same target, stepped: the   *)
(* wrapper and the default implementation hold no lock, so the second      *)
(* caller's write may reach the target between the read and the write.     *)
(* Each single target access is taken as indivisible.                      *)
(***************************************************************************)
\* opStart; target->readModifyWrite: DataType v = this->read(addr);
RmwStart ==
    /\ Idle
    /\ \E addr \in RegAddrs, new_data \in DataVals, mask \in MaskVals, fault \in Faults(2) :
         LET m == TargetRead(Machine(regs, <<>>), addr, fault)
         IN /\ op' = Op("readModifyWrite", addr, new_data, mask, <<>>, 0, fault)
            /\ accesses' = m.acc
            /\ thrown' = m.exc
            /\ IF m.exc = NoExc
               THEN /\ events' = opStart(interposer, "readModifyWrite")
                    /\ pc' = "rmw_write"
               ELSE /\ events' = opStart(interposer, "readModifyWrite") \o
                                 TryCatch(interposer, m, <<>>)
                    /\ pc' = After(m)
    /\ out' = <<>>
    /\ nops' = nops + 1
    /\ UNCHANGED <<regs, dropMask, interposer, ndebug, sameType, clock, poll, other, chunker, twin, pending, registry>>

\* the write-back done on the register as it is now, as if read and write
\* were one indivisible access
RmwWriteBack_Atomic ==
    /\ pc = "rmw_write"
    /\ LET v == BitOr(BitAnd(regs[op.addr], BitNot(op.mask)), BitAnd(op.data, op.mask))
           m == TargetWrite([Machine(regs, <<>>) EXCEPT !.acc = accesses], op.addr, v,
                            op.fault, dropMask)
       IN /\ accesses' = m.acc
          /\ regs' = m.regs
          /\ thrown' = m.exc
          /\ events' = events \o TryCatch(interposer, m, <<>>)
          /\ pc' = After(m)
    /\ UNCHANGED <<dropMask, interposer, ndebug, sameType, op, out, nops, clock, poll, other, chunker, twin, pending, registry>>

\* v &= ~mask; v |= new_data & mask; this->write(addr, v); opEnd
\* v is the value the read returned (accesses[1].v)
RmwWriteBack ==
    /\ pc = "rmw_write"
    /\ LET v == BitOr(BitAnd(accesses[1].v, BitNot(op.mask)), BitAnd(op.data, op.mask))
           m == TargetWrite([Machine(regs, <<>>) EXCEPT !.acc = accesses], op.addr, v,
                            op.fault, dropMask)
       IN /\ accesses' = m.acc
          /\ regs' = m.regs
          /\ thrown' = m.exc
          /\ events' = events \o TryCatch(interposer, m, <<>>)
          /\ pc' = After(m)
    /\ UNCHANGED <<dropMask, interposer, ndebug, sameType, op, out, nops, clock, poll, other, chunker, twin, pending, registry>>

\* a second caller sharing the target writes a register, between the first
\* caller's calls or between the read and the write of its readModifyWrite
OtherWrite ==
    /\ pc \in {"idle", "rmw_write"}
    /\ \E addr \in RegAddrs, data \in DataVals :
         /\ regs' = [regs EXCEPT ![addr] = BitAnd(data, BitNot(dropMask))]
         /\ other' = IF pc = "rmw_write" THEN data ELSE other
    /\ UNCHANGED <<pc, dropMask, interposer, ndebug, sameType, op, events, accesses, out, thrown, nops,
                   clock, poll, chunker, twin, pending, registry>>

(***************************************************************************)
(* chunkify(buffer, max_chunk_size, fn), stepped: one loop iteration is    *)
(* one step.  op.span is the buffer, op.data the maximum chunk size.       *)
(***************************************************************************)
Min(a, b) == IF a <= b THEN a ELSE b

\* buffer.subspan(pos, chunk_size)
Subspan(buffer, pos, chunk_size) == SubSeq(buffer, pos + 1, pos + chunk_size)

\* fn(chunk, pos): the model keeps the first MaxCalls calls
Callback(calls, chunk, pos) ==
    IF Len(calls) < MaxCalls THEN Append(calls, [chunk |-> chunk, offset |-> pos]) ELSE calls

\* for (size_t pos = 0 ; pos < buffer.size() ; ): the test that enters or leaves
ChunkifyTest(buffer, pos) == IF pos < Len(buffer) THEN "chunk_loop" ELSE "done"

ChunkifyStart ==
    /\ Idle
    /\ \E buffer \in SpansUpTo(DataSpans, MaxLen), max_chunk_size \in 0 .. MaxChunkSize :
         /\ op' = Op("chunkify", 0, max_chunk_size, 0, buffer, 0, NoFault)
         /\ pc' = ChunkifyTest(buffer, 0)
    /\ chunker' = Chunker(0, <<>>, FALSE)
    /\ events' = <<>>
    /\ accesses' = <<>>
    /\ out' = <<>>
    /\ thrown' = NoExc
    /\ nops' = nops + 1
    /\ UNCHANGED <<regs, dropMask, interposer, ndebug, sameType, clock, poll, other, twin, pending,
                   registry>>

\* std::min(max_chunk_size, buffer.size() - pos)
ChunkSize(max_chunk_size, size, pos) == Min(max_chunk_size, size - pos)

\* chunk_size = ...; chunk = buffer.subspan(pos, chunk_size); fn(chunk, pos);
\* pos += chunk_size; and the loop test
ChunkifyStep ==
    /\ pc = "chunk_loop"
    /\ LET buffer == op.span
           pos == chunker.pos
           chunk_size == ChunkSize(op.data, Len(buffer), pos)
           chunk == Subspan(buffer, pos, chunk_size)
       IN /\ chunker' = Chunker(pos + chunk_size, Callback(chunker.calls, chunk, pos),
                                ~chunker.odd)
          /\ pc' = ChunkifyTest(buffer, pos + chunk_size)
    /\ UNCHANGED <<regs, dropMask, interposer, ndebug, sameType, op, events, accesses, out, thrown, nops,
                   clock, poll, other, twin, pending, registry>>

(***************************************************************************)
(* The same calls made through a second wrapper that has no interposer,    *)
(* over its own copy of the target.                                        *)
(***************************************************************************)
\* what the call o does to the target with registers r: the body of the
\* wrapper operation between its hook calls
Exec(o, r, drop, nd) ==
    CASE o.kind = "write" ->
           TargetWrite(Machine(r, <<>>), o.addr, o.data, o.fault, drop)
      [] o.kind = "read" ->
           StoreOut(Machine(r, <<Untouched>>),
                    TargetRead(Machine(r, <<Untouched>>), o.addr, o.fault), 0)
      [] o.kind = "readModifyWrite" ->
           ReadModifyWriteImpl(Machine(r, <<>>), o.addr, o.data, o.mask, o.fault, drop)
      [] o.kind = "seqWrite" ->
           SeqWriteImpl(Machine(r, <<>>), o.addr, o.span, o.increment, o.fault, drop)
      [] o.kind = "seqRead" ->
           SeqReadImpl(Machine(r, o.span), o.addr, o.increment, o.fault)
      [] o.kind = "fifoWrite" ->
           FifoWriteImpl(Machine(r, <<>>), o.addr, o.span, o.fault, drop)
      [] o.kind = "fifoRead" ->
           FifoReadImpl(Machine(r, o.span), o.addr, o.fault)
      [] o.kind = "compWrite" ->
           CompWriteImpl(Machine(r, <<>>), o.span, o.fault, drop)
      [] o.kind = "compRead" ->
           CompReadImpl(Machine(r, [i \in 1 .. o.data |-> Untouched]), o.span, o.fault, nd,
                        "crash")
      [] o.kind = "writeVerify" ->
           WriteVerifyBody(Machine(r, <<>>), o.addr, o.data, o.mask, o.fault, drop)
      [] o.kind = "readVerify" ->
           ReadVerifyBody(Machine(r, <<>>), o.addr, o.data, o.mask, o.fault)
      [] OTHER -> Machine(r, <<>>)

\* the second wrapper is given the call the first one has just made
TwinReplay ==
    /\ pc \in {"done", "dead"}
    /\ twin.nops < nops
    /\ LET m == Exec(op, twin.regs, dropMask, ndebug)
       IN twin' = Twin(m.regs, m.acc, m.out, m.exc, twin.nops + 1)
    /\ UNCHANGED <<pc, regs, dropMask, interposer, ndebug, sameType, op, events, accesses, out,
                   thrown, nops, clock, poll, other, chunker, pending, registry>>

\* the second wrapper is given the fifo call as a sequential one with
\* increment 0
FifoAsSeq(o) ==
    [o EXCEPT !.kind = IF o.kind = "fifoWrite" THEN "seqWrite" ELSE "seqRead", !.increment = 0]

SeqReplay ==
    /\ pc \in {"done", "dead"}
    /\ op.kind \in {"fifoWrite", "fifoRead"}
    /\ twin.nops < nops
    /\ LET m == Exec(FifoAsSeq(op), twin.regs, dropMask, ndebug)
       IN twin' = Twin(m.regs, m.acc, m.out, m.exc, twin.nops + 1)
    /\ UNCHANGED <<pc, regs, dropMask, interposer, ndebug, sameType, op, events, accesses, out,
                   thrown, nops, clock, poll, other, chunker, pending, registry>>

(***************************************************************************)
(* The overloads that delegate: they build the argument of another         *)
(* overload, call it, and hand back what it stored.                        *)
(***************************************************************************)
\* RTF_DEFAULT_POLLER_INITIAL_DELAY, _RECHECK_DELAY, _TIMEOUT as the build
\* sets them, in ms
default_poller == BasicPoller(0, 10, 30)

\* the overload each of them calls
Delegate ==
    [readValue |-> "read", seqReadValue |-> "seqRead", fifoReadValue |-> "fifoRead",
     compReadValue |-> "compRead", seqWriteList |-> "seqWrite",
     fifoWriteList |-> "fifoWrite", compWriteList |-> "compWrite",
     compReadList |-> "compRead", compReadListValue |-> "compRead"]

\* the call o as the overload it delegates to sees it
Delegated(o) == IF o.kind \in DOMAIN Delegate THEN [o EXCEPT !.kind = Delegate[o.kind]] ELSE o

\* return rv: the caller gets the vector when the inner call returned, and
\* nothing when it raised
ReturnValue(m) == IF m.exc = NoExc THEN m.out ELSE <<>>

\* the state a delegating call leaves behind: the inner overload's events and
\* accesses, and ret in the caller's hands
Delegating(o, pre, m, after, ret) ==
    /\ op' = o
    /\ events' = opStart(interposer, Delegate[o.kind]) \o pre \o TryCatch(interposer, m, after)
    /\ accesses' = m.acc
    /\ regs' = m.regs
    /\ out' = ret
    /\ thrown' = m.exc
    /\ pc' = After(m)
    /\ nops' = nops + 1
    /\ clock' = 0
    /\ UNCHANGED <<dropMask, interposer, ndebug, sameType, poll, other, chunker, twin, pending, registry>>

\* DataType read(addr): DataType out_data; read(addr, out_data); return out_data
ReadValue ==
    /\ Idle
    /\ \E addr \in RegAddrs, fault \in Faults(1) :
         LET m0 == Machine(regs, <<Untouched>>)
             m  == StoreOut(m0, TargetRead(m0, addr, fault), 0)
         IN Delegating(Op("readValue", addr, 0, 0, <<>>, 0, fault), <<>>, m, FmtData(m.out),
                       ReturnValue(m))

\* vector seqRead(start_addr, count, increment): rv.resize(count);
\* seqRead(start_addr, rv, increment); return rv
SeqReadValue ==
    /\ Idle
    /\ \E start_addr \in StartAddrs, count \in 0 .. MaxLen, increment \in Increments :
       \E fault \in Faults(count) :
         LET rv == [i \in 1 .. count |-> 0]
             m == SeqReadImpl(Machine(regs, rv), start_addr, increment, fault)
         IN Delegating(Op("seqReadValue", start_addr, 0, 0, rv, increment, fault),
                       <<>>, m, FmtData(m.out), ReturnValue(m))

\* vector fifoRead(fifo_addr, count): rv.resize(count); fifoRead(fifo_addr, rv)
FifoReadValue ==
    /\ Idle
    /\ \E fifo_addr \in StartAddrs, count \in 0 .. MaxLen :
       \E fault \in Faults(count) :
         LET rv == [i \in 1 .. count |-> 0]
             m == FifoReadImpl(Machine(regs, rv), fifo_addr, fault)
         IN Delegating(Op("fifoReadValue", fifo_addr, 0, 0, rv, 0, fault),
                       <<>>, m, FmtData(m.out), ReturnValue(m))

\* vector compRead(addresses), from a span or from an initializer list:
\* rv.resize(addresses.size()); compRead(addresses, rv); return rv
CompReadReturning(kind) ==
    /\ Idle
    /\ \E addresses \in SpansUpTo(AddrSpans, MaxLen) :
       \E fault \in Faults(Len(addresses)) :
         LET rv == [i \in 1 .. Len(addresses) |-> 0]
             m == CompReadImpl(Machine(regs, rv), addresses, fault, ndebug, "crash")
         IN Delegating(Op(kind, 0, Len(addresses), 0, addresses, 0, fault),
                       opExtra(interposer, FmtAddresses(addresses)), m, FmtData(m.out),
                       ReturnValue(m))

CompReadValue == CompReadReturning("compReadValue")

CompReadListValue == CompReadReturning("compReadListValue")

\* seqWrite(start_addr, {..}, increment): seqWrite(start_addr, span{begin, end}, increment)
SeqWriteList ==
    /\ Idle
    /\ \E start_addr \in StartAddrs, data \in SpansUpTo(DataSpans, MaxLen), increment \in Increments :
       \E fault \in Faults(Len(data)) :
         LET m == SeqWriteImpl(Machine(regs, <<>>), start_addr, data, increment, fault, dropMask)
         IN Delegating(Op("seqWriteList", start_addr, 0, 0, data, increment, fault),
                       opExtra(interposer, FmtData(data)), m, <<>>, <<>>)

\* fifoWrite(fifo_addr, {..}): fifoWrite(fifo_addr, span{begin, end})
FifoWriteList ==
    /\ Idle
    /\ \E fifo_addr \in StartAddrs, data \in SpansUpTo(DataSpans, MaxLen) :
       \E fault \in Faults(Len(data)) :
         LET m == FifoWriteImpl(Machine(regs, <<>>), fifo_addr, data, fault, dropMask)
         IN Delegating(Op("fifoWriteList", fifo_addr, 0, 0, data, 0, fault),
                       opExtra(interposer, FmtData(data)), m, <<>>, <<>>)

\* compWrite({..}): compWrite(span{begin, end})
CompWriteList ==
    /\ Idle
    /\ \E addr_data \in SpansUpTo(PairSpans, MaxLen) :
       \E fault \in Faults(Len(addr_data)) :
         LET m == CompWriteImpl(Machine(regs, <<>>), addr_data, fault, dropMask)
         IN Delegating(Op("compWriteList", 0, 0, 0, addr_data, 0, fault),
                       opExtra(interposer, FmtPair(addr_data)), m, <<>>, <<>>)

\* compRead({..}, out_data): compRead(span{begin, end}, out_data); out_data
\* is the caller's span, of the length of the list
CompReadList ==
    /\ Idle
    /\ \E addresses \in SpansUpTo(AddrSpans, MaxLen) :
       \E fault \in Faults(Len(addresses)) :
         LET m == CompReadImpl(Machine(regs, [i \in 1 .. Len(addresses) |-> Untouched]),
                               addresses, fault, ndebug, "crash")
         IN Delegating(Op("compReadList", 0, Len(addresses), 0, addresses, 0, fault),
                       opExtra(interposer, FmtAddresses(addresses)), m, FmtData(m.out), m.out)

\* pollRead(addr, expected, mask): pollRead(default_poller, addr, expected, mask)
PollReadDefault == PollReadStart /\ poll'.poller = default_poller

\* the second wrapper is given the call the overload delegates to
DelegateReplay ==
    /\ pc \in {"done", "dead"}
    /\ twin.nops < nops
    /\ LET m == Exec(Delegated(op), twin.regs, dropMask, ndebug)
       IN twin' = Twin(m.regs, m.acc, m.out, m.exc, twin.nops + 1)
    /\ UNCHANGED <<pc, regs, dropMask, interposer, ndebug, sameType, op, events, accesses, out,
                   thrown, nops, clock, poll, other, chunker, pending, registry>>

\* setDefault(nullptr) or setDefault(std::make_unique<...>()): the assignment
\* destroys the instance that was the default
SetDefault ==
    /\ Idle
    /\ \E fresh \in BOOLEAN :
          /\ fresh => registry.made < MaxInterposers
          /\ registry' = Registry(IF fresh THEN registry.made + 1 ELSE 0,
                                  IF fresh THEN registry.made + 1 ELSE registry.made,
                                  registry.destroyed \cup
                                      (IF registry.default_interposer = 0 THEN {}
                                       ELSE {registry.default_interposer}),
                                  registry.wrappers, registry.hook)
    /\ UNCHANGED <<pc, regs, dropMask, interposer, ndebug, sameType, op, events, accesses, out,
                   thrown, nops, clock, poll, other, chunker, twin, pending>>

\* FluentRegisterTarget(target): the interposer member is getDefault() as of now
ConstructDefault ==
    /\ Idle
    /\ Len(registry.wrappers) < MaxWrappers
    /\ registry' = Registry(registry.default_interposer, registry.made, registry.destroyed,
                            Append(registry.wrappers,
                                   Wrapper(registry.default_interposer, FALSE)),
                            registry.hook)
    /\ UNCHANGED <<pc, regs, dropMask, interposer, ndebug, sameType, op, events, accesses, out,
                   thrown, nops, clock, poll, other, chunker, twin, pending>>

\* FluentRegisterTarget(interposer, target) with nullptr or an instance the
\* caller owns
ConstructExplicit ==
    /\ Idle
    /\ Len(registry.wrappers) < MaxWrappers
    /\ \E fresh \in BOOLEAN :
          /\ fresh => registry.made < MaxInterposers
          /\ registry' = Registry(registry.default_interposer,
                                  IF fresh THEN registry.made + 1 ELSE registry.made,
                                  registry.destroyed,
                                  Append(registry.wrappers,
                                         Wrapper(IF fresh THEN registry.made + 1 ELSE 0, TRUE)),
                                  registry.hook)
    /\ UNCHANGED <<pc, regs, dropMask, interposer, ndebug, sameType, op, events, accesses, out,
                   thrown, nops, clock, poll, other, chunker, twin, pending>>

\* where a call through the pointer ip runs: nowhere for nullptr, on the
\* instance while it lives, and anywhere (the freed instance, an instance that
\* took its place, or a fault) once it was destroyed
Lands(ip) ==
    IF ip = 0 THEN {0}
    ELSE IF ip \notin registry.destroyed THEN {ip}
    ELSE {ip, Segfault} \cup ((1..registry.made) \ registry.destroyed)

\* a hook call of wrapper w: if (this->interposer) this->interposer->opStart(...)
Report ==
    /\ Idle
    /\ \E w \in DOMAIN registry.wrappers :
          \E at \in Lands(registry.wrappers[w].interposer) :
              registry' = Registry(registry.default_interposer, registry.made,
                                  registry.destroyed, registry.wrappers,
                                  Landed(w, at, registry.wrappers[w].interposer
                                                    \notin registry.destroyed))
    /\ UNCHANGED <<pc, regs, dropMask, interposer, ndebug, sameType, op, events, accesses, out,
                   thrown, nops, clock, poll, other, chunker, twin, pending>>

\* the call's event stream holds a start event and no end or error event
Unterminated(evs) ==
    /\ \E i \in DOMAIN evs : evs[i].ev = "start"
    /\ \A i \in DOMAIN evs : evs[i].ev \notin {"end", "error"}

\* the caller takes the result and is ready for the next call; p is the
\* number of operations the interposer has seen start and not finish
Returned(p) ==
    /\ pc = "done"
    /\ pc' = "idle"
    /\ op' = NoOp
    /\ events' = <<>>
    /\ accesses' = <<>>
    /\ out' = <<>>
    /\ thrown' = NoExc
    /\ clock' = 0
    /\ poll' = NoPoll
    /\ other' = NoOther
    /\ chunker' = NoChunker
    /\ twin' = Twin(twin.regs, <<>>, <<>>, NoExc, twin.nops)
    /\ pending' = p
    /\ UNCHANGED <<regs, dropMask, interposer, ndebug, sameType, nops, registry>>

Return == Returned(pending)

\* the same, with the interposer's view of the stream kept across calls
ReturnTracked == Returned(IF Unterminated(events) THEN pending + 1 ELSE pending)

Next ==
    \/ Write
    \/ Read
    \/ ReadModifyWrite
    \/ SeqWrite
    \/ SeqRead
    \/ FifoWrite
    \/ FifoRead
    \/ CompWrite
    \/ CompRead
    \/ WriteVerify
    \/ ReadVerify
    \/ Null
    \/ Delay
    \/ SeqAnnotation
    \/ StepAnnotation
    \/ Return

Spec == Init /\ [][Next]_vars

\* pollRead calls on the dummy target
PollInit == Init /\ dropMask = 0 /\ ndebug = FALSE

PollNext ==
    \/ PollReadStart
    \/ PollEval
    \/ PollSleep
    \/ DeviceChange
    \/ Return

PollSpec == PollInit /\ [][PollNext]_vars

\* the polling thread keeps running: the predicate is evaluated when it is
\* due and sleep_for returns
PollLiveInit == PollInit /\ interposer = "ip"

PollLiveSpec == PollLiveInit /\ [][PollNext]_vars /\ WF_vars(PollEval) /\ WF_vars(PollSleep)

\* readModifyWrite calls of one caller, writes of a second one
RmwNext ==
    \/ RmwStart
    \/ RmwWriteBack
    \/ OtherWrite
    \/ Return

RmwSpec == PollInit /\ [][RmwNext]_vars

\* chunkify calls
ChunkNext ==
    \/ ChunkifyStart
    \/ ChunkifyStep
    \/ Return

ChunkSpec == PollInit /\ [][ChunkNext]_vars

\* the loop keeps running: an iteration that can change the state is taken
ChunkLiveSpec == ChunkSpec /\ WF_vars(ChunkifyStep)

\* compressed accesses, in either instantiation
CompNext ==
    \/ CompWrite
    \/ CompRead
    \/ Return

CompSpec == CompInit /\ [][CompNext]_vars

\* a pollRead with the poller BasicPoller(0, 10ms, 30ms)
PollReadShort == PollReadStart /\ poll'.poller = BasicPoller(0, 10, 30)

\* the single-register operations: write, readModifyWrite, the verifying
\* accesses and pollRead
SingleNext ==
    \/ Write
    \/ ReadModifyWrite
    \/ WriteVerify
    \/ ReadVerify
    \/ PollReadShort
    \/ PollEval
    \/ PollSleep
    \/ DeviceChange
    \/ Return

SingleSpec == PollInit /\ [][SingleNext]_vars

\* both wrappers have been given the call before the next one is made
TwinReturn == twin.nops = nops /\ Return

\* every call made through a wrapper and then through its twin
TwinNext ==
    \/ Write
    \/ Read
    \/ ReadModifyWrite
    \/ SeqWrite
    \/ SeqRead
    \/ FifoWrite
    \/ FifoRead
    \/ CompWrite
    \/ CompRead
    \/ WriteVerify
    \/ ReadVerify
    \/ Null
    \/ Delay
    \/ SeqAnnotation
    \/ StepAnnotation
    \/ TwinReplay
    \/ TwinReturn

TwinSpec == PollInit /\ [][TwinNext]_vars

\* the delegating overloads, each followed by the overload it calls made
\* through the second wrapper; write sets the register pollRead waits for
DelegateNext ==
    \/ Write
    \/ ReadValue
    \/ SeqReadValue
    \/ FifoReadValue
    \/ CompReadValue
    \/ CompReadListValue
    \/ SeqWriteList
    \/ FifoWriteList
    \/ CompWriteList
    \/ CompReadList
    \/ PollReadDefault
    \/ PollEval
    \/ PollSleep
    \/ DelegateReplay
    \/ TwinReturn

DelegateSpec == PollInit /\ [][DelegateNext]_vars

\* fifo accesses, each followed by the sequential access with increment 0
\* made through the second wrapper
FifoSeqNext ==
    \/ FifoWrite
    \/ FifoRead
    \/ SeqReplay
    \/ TwinReturn

FifoSeqSpec == Init /\ [][FifoSeqNext]_vars

\* sequential accesses that run past the largest address
WrapNext ==
    \/ SeqWriteWrap
    \/ SeqReadWrap
    \/ Return

WrapSpec == PollInit /\ [][WrapNext]_vars

\* pollRead with a poller of the caller's own, after writes to the register
CustomPollNext ==
    \/ Write
    \/ PollReadCustom
    \/ Return

CustomPollSpec == PollInit /\ [][CustomPollNext]_vars

\* calls one after another on one wrapper, as the interposer sees them
BracketNext ==
    \/ Write
    \/ Read
    \/ Null
    \/ SeqAnnotation
    \/ ReturnTracked

BracketSpec == Init /\ [][BracketNext]_vars

\* null and delay, the delay in two steps
DelayNext ==
    \/ Null
    \/ DelayStart
    \/ DelayWake
    \/ Return

DelaySpec == Init /\ [][DelayNext]_vars

\* the default interposer and the wrappers constructed around it
DefaultNext ==
    \/ SetDefault
    \/ ConstructDefault
    \/ ConstructExplicit
    \/ Report

\* no default interposer is installed when the program starts
DefaultInit == PollInit /\ interposer = "null"

DefaultSpec == DefaultInit /\ [][DefaultNext]_vars

(***************************************************************************)
(* Properties                                                              *)
(***************************************************************************)
\* the call has ended (returned, raised, or took the process down)
Ended == pc \in {"done", "dead"}

\* a lifecycle operation: every wrapper call except the seq/step annotations
IsOperation == op.kind \notin {"none", "seq", "step"}

Count(evs, k) == Cardinality({ i \in 1 .. Len(evs) : evs[i].ev = k })

\* an exception object reaches the caller
Propagates(e) == e.kind \notin {"none", "abort", "crash"}

StartsWithStart(evs) == Len(evs) >= 1 /\ evs[1].ev = "start" /\ Count(evs, "start") = 1

EndsWith(evs, k) == Len(evs) >= 1 /\ evs[Len(evs)].ev = k /\ Count(evs, k) = 1

\* C1: every wrapper operation other than seq/step shows the interposer exactly
\* one start followed by exactly one end and no error when it succeeds, and
\* exactly one start followed by exactly one error and no end when it fails.
C1_ExactlyOneTerminalEvent ==
    (Ended /\ IsOperation /\ interposer = "ip") =>
        /\ StartsWithStart(events)
        /\ thrown = NoExc =>
              EndsWith(events, "end") /\ Count(events, "error") = 0
        /\ thrown # NoExc =>
              EndsWith(events, "error") /\ Count(events, "end") = 0

\* C2: once the start event is out, a terminal event (end or error) is out
\* before control leaves the operation, whatever kind of failure the
\* underlying target operation raises.
C2_TerminalEventOnEveryExit ==
    (pc = "done" /\ IsOperation /\ Count(events, "start") = 1) =>
        events[Len(events)].ev \in {"end", "error"}

\* C3: writeVerify(addr, data, mask) hands data & mask to the underlying write.
C3_WriteVerifyWritesMasked ==
    (Ended /\ op.kind = "writeVerify") =>
        /\ Len(accesses) >= 1
        /\ accesses[1].k = "w"
        /\ accesses[1].a = op.addr
        /\ accesses[1].v = BitAnd(op.data, op.mask)

\* a compRead whose out span (op.data elements) and address span differ in length
MismatchedCompRead == op.kind = "compRead" /\ Len(op.span) # op.data

OutUntouched == \A i \in 1 .. Len(out) : out[i] = Untouched

\* C4: compRead with addresses.length != out.length fails with an
\* argument-count error raised to the caller before any I/O: no underlying
\* read is issued and no element of out is modified.
C4_MismatchRaisesArgumentError ==
    (Ended /\ MismatchedCompRead) =>
        /\ Propagates(thrown)
        /\ accesses = <<>>
        /\ OutUntouched

\* C4 (amended): in a build with assertions enabled, compRead with
\* addresses.length != out.length trips the assert and the process aborts
\* before any I/O: no underlying read is issued, no element of out is
\* modified, and no error is raised to the caller.
C4_MismatchAbortsBeforeIO ==
    (Ended /\ MismatchedCompRead /\ ~ndebug) =>
        /\ thrown = Aborted
        /\ pc = "dead"
        /\ accesses = <<>>
        /\ Len(out) = op.data
        /\ OutUntouched

C4_Witness ==
    /\ Ended /\ MismatchedCompRead /\ ~ndebug
    /\ Len(op.span) = 3 /\ op.data = 2
    /\ thrown = Aborted

\* C5: a mismatched compRead through the wrapper is reported exactly once to
\* the interposer's error hook, after the start event and with no end event,
\* and the argument error then propagates to the caller.
C5_MismatchReportedToErrorHook ==
    (Ended /\ MismatchedCompRead /\ interposer = "ip") =>
        /\ StartsWithStart(events)
        /\ Count(events, "error") = 1
        /\ Count(events, "end") = 0
        /\ Propagates(thrown)

\* C5 (amended): with assertions enabled, a mismatched compRead through the
\* wrapper emits the start event and one extra event per address, then the
\* process aborts in the target's assert: the error hook is not called, no
\* end event is emitted and nothing propagates to the caller.
C5_MismatchAbortsAfterStart ==
    (Ended /\ MismatchedCompRead /\ interposer = "ip" /\ ~ndebug) =>
        /\ StartsWithStart(events)
        /\ Len(events) = 1 + Len(op.span)
        /\ \A i \in 1 .. Len(op.span) :
              events[i + 1] = Event("extra", <<(AddrBits \div 8) * 2, op.span[i]>>)
        /\ Count(events, "error") = 0
        /\ Count(events, "end") = 0
        /\ ~Propagates(thrown)

C5_Witness ==
    /\ Ended /\ MismatchedCompRead /\ interposer = "ip" /\ ~ndebug
    /\ Len(op.span) = 2 /\ op.data = 3
    /\ Len(events) = 3


\* both underlying calls of a writeVerify returned: the register was read back
ReadBack == Len(accesses) = 2 /\ accesses[2].k = "r" /\ accesses[2].ok

C7_ReadVerify ==
    (Ended /\ op.kind = "readVerify") =>
        /\ Len(accesses) = 1
        /\ accesses[1].k = "r"
        /\ accesses[1].a = op.addr
        /\ accesses[1].ok =>
              /\ (BitAnd(accesses[1].v, op.mask) # BitAnd(op.data, op.mask)) =>
                    thrown = ReadVerifyFailureException(BitAnd(op.data, op.mask), op.mask,
                                                        accesses[1].v)
              /\ (BitAnd(accesses[1].v, op.mask) = BitAnd(op.data, op.mask)) =>
                    thrown = NoExc
        /\ ~accesses[1].ok => thrown = FaultExc(op.fault)

\* a readVerify that passes although actual and expected differ outside the mask
C7_Witness ==
    /\ Ended /\ op.kind = "readVerify"
    /\ accesses[1].ok /\ accesses[1].v = 15
    /\ op.data = 255 /\ op.mask = 15
    /\ thrown = NoExc

Matches(v) == BitAnd(v, op.mask) = BitAnd(op.data, op.mask)

C9_SeqOneAccessPerElement ==
    /\ (Ended /\ op.kind = "seqWrite" /\ op.fault.at = 0) =>
          /\ Len(accesses) = Len(op.span)
          /\ \A i \in 1 .. Len(op.span) :
                accesses[i] = Access("w", op.addr + op.increment * (i - 1), op.span[i], TRUE)
    /\ (Ended /\ op.kind = "seqRead" /\ op.fault.at = 0) =>
          /\ Len(accesses) = Len(op.span)
          /\ Len(out) = Len(op.span)
          /\ \A i \in 1 .. Len(op.span) :
                /\ accesses[i] = Access("r", op.addr + op.increment * (i - 1),
                                         regs[op.addr + op.increment * (i - 1)], TRUE)
                /\ out[i] = accesses[i].v
    /\ (Ended /\ op.kind = "seqWrite" /\ op.addr = 256 /\ op.span = <<10, 11, 12>>
           /\ op.increment = 4 /\ op.fault.at = 0) =>
          accesses = <<Access("w", 256, 10, TRUE), Access("w", 260, 11, TRUE),
                       Access("w", 264, 12, TRUE)>>

\* a seqRead of three registers holding three different values
C9_Witness ==
    /\ Ended /\ op.kind = "seqRead" /\ op.fault.at = 0 /\ op.increment = 4
    /\ out = <<10, 11, 12>>
    /\ Len(accesses) = 3

\* C10: the default fifoWrite/fifoRead issue exactly one underlying write/read
\* per element, every one at the fifo address, in element order, fifoRead
\* storing the i-th value read in out[i]; an empty span issues no access.
C10_FifoOneAccessPerElement ==
    /\ (Ended /\ op.kind = "fifoWrite" /\ op.fault.at = 0) =>
          /\ Len(accesses) = Len(op.span)
          /\ \A i \in 1 .. Len(op.span) :
                accesses[i] = Access("w", op.addr, op.span[i], TRUE)
    /\ (Ended /\ op.kind = "fifoRead" /\ op.fault.at = 0) =>
          /\ Len(accesses) = Len(op.span)
          /\ Len(out) = Len(op.span)
          /\ \A i \in 1 .. Len(op.span) :
                /\ accesses[i] = Access("r", op.addr, regs[op.addr], TRUE)
                /\ out[i] = accesses[i].v
    /\ (Ended /\ op.kind \in {"fifoWrite", "fifoRead"} /\ op.span = <<>>) =>
          accesses = <<>>

C10_Witness ==
    /\ Ended /\ op.kind = "fifoWrite" /\ op.fault.at = 0
    /\ op.span = <<10, 12, 11>>
    /\ accesses = <<Access("w", 256, 10, TRUE), Access("w", 256, 12, TRUE),
                    Access("w", 256, 11, TRUE)>>
    /\ regs[256] = 11

\* C11: the default compWrite issues exactly one underlying write per
\* (address, data) pair in input order, and the default compRead with
\* equal-length spans issues exactly one underlying read per address in input
\* order, out[i] holding the value read from addresses[i].
C11_CompOneAccessPerElement ==
    /\ (Ended /\ op.kind = "compWrite" /\ op.fault.at = 0) =>
          /\ Len(accesses) = Len(op.span)
          /\ \A i \in 1 .. Len(op.span) :
                accesses[i] = Access("w", op.span[i][1], op.span[i][2], TRUE)
    /\ (Ended /\ op.kind = "compRead" /\ Len(op.span) = op.data /\ op.fault.at = 0) =>
          /\ thrown = NoExc
          /\ Len(accesses) = Len(op.span)
          /\ Len(out) = Len(op.span)
          /\ \A i \in 1 .. Len(op.span) :
                /\ accesses[i] = Access("r", op.span[i], regs[op.span[i]], TRUE)
                /\ out[i] = regs[op.span[i]]

\* a compRead of scattered registers holding different values, after a
\* compWrite that wrote them
C11_Witness ==
    /\ Ended /\ op.kind = "compRead" /\ op.fault.at = 0
    /\ op.span = <<260, 256, 260>> /\ op.data = 3
    /\ out = <<12, 11, 12>>

\* C12: the default readModifyWrite(addr, new_data, mask) issues exactly one
\* read of addr followed by exactly one write to the same addr with value
\* (v & ~mask) | (new_data & mask), v being the value read: bits outside mask
\* are written back unchanged and bits inside mask take new_data's bits.
C12_ReadModifyWrite ==
    (Ended /\ op.kind = "readModifyWrite" /\ op.fault.at = 0) =>
        /\ thrown = NoExc
        /\ Len(accesses) = 2
        /\ accesses[1].k = "r" /\ accesses[1].a = op.addr /\ accesses[1].ok
        /\ accesses[2].k = "w" /\ accesses[2].a = op.addr /\ accesses[2].ok
        /\ accesses[2].v = BitOr(BitAnd(accesses[1].v, BitNot(op.mask)),
                                 BitAnd(op.data, op.mask))
        /\ BitAnd(accesses[2].v, BitNot(op.mask)) = BitAnd(accesses[1].v, BitNot(op.mask))
        /\ BitAnd(accesses[2].v, op.mask) = BitAnd(op.data, op.mask)

\* 0xFF read, low nibble replaced by 0x1: 0xF1 written
C12_Witness ==
    /\ Ended /\ op.kind = "readModifyWrite" /\ op.fault.at = 0
    /\ accesses[1].v = 255 /\ op.data = 1 /\ op.mask = 15
    /\ accesses[2].v = 241

\* the first caller's readModifyWrite returned and the second caller wrote
\* the register between its read and its write
Interleaved ==
    /\ pc = "done" /\ op.kind = "readModifyWrite" /\ thrown = NoExc
    /\ other # NoOther

\* C13: readModifyWrite is not atomic: no lock is held between its read and
\* its write, so a second caller's write to the same address can fall between
\* them, and the value written in that window is overwritten by the first
\* caller's write-back for all bits outside its mask (they go back to what the
\* first caller read) as well as inside it.
C13_RmwLosesInterleavedWrite ==
    Interleaved =>
        /\ Len(accesses) = 2
        /\ BitAnd(regs[op.addr], BitNot(op.mask)) = BitAnd(accesses[1].v, BitNot(op.mask))
        /\ BitAnd(regs[op.addr], op.mask) = BitAnd(op.data, op.mask)

\* the second caller's 0xFF, written after the first caller read 0x00, is gone
\* after the write-back of readModifyWrite(new_data = 0x01, mask = 0x0F)
C13_Witness ==
    /\ Interleaved
    /\ accesses[1].v = 0 /\ other = 255
    /\ op.data = 1 /\ op.mask = 15
    /\ regs[op.addr] = 1

RECURSIVE Concat(_)
Concat(calls) == IF calls = <<>> THEN <<>> ELSE calls[1].chunk \o Concat(Tail(calls))

\* a chunkify call, running or returned
Chunkifying == op.kind = "chunkify"

\* the chunks handed out so far are consecutive pieces of the buffer, in order,
\* and reproduce it exactly once chunkify has returned
ChunksReproduceInput ==
    /\ Concat(chunker.calls) = SubSeq(op.span, 1, Len(Concat(chunker.calls)))
    /\ pc = "done" => Concat(chunker.calls) = op.span

\* offsets start at 0, each is the previous one plus the previous chunk's
\* length, and they increase strictly
OffsetsContiguous ==
    /\ Len(chunker.calls) >= 1 => chunker.calls[1].offset = 0
    /\ \A i \in 1 .. Len(chunker.calls) - 1 :
          /\ chunker.calls[i + 1].offset =
                chunker.calls[i].offset + Len(chunker.calls[i].chunk)
          /\ chunker.calls[i + 1].offset > chunker.calls[i].offset

\* every chunk but the last has the chunk size, the last between 1 and it
ChunkLengths ==
    /\ \A i \in 1 .. Len(chunker.calls) - 1 : Len(chunker.calls[i].chunk) = op.data
    /\ \A i \in 1 .. Len(chunker.calls) :
          Len(chunker.calls[i].chunk) >= 1 /\ Len(chunker.calls[i].chunk) <= op.data

\* C14: for any sequence and any maximum chunk size, chunkify invokes its
\* callback on consecutive chunks in order such that concatenating the chunks
\* reproduces the input exactly, every chunk except possibly the last has
\* length exactly the chunk size (the last between 1 and the chunk size), and
\* the offsets start at 0, are strictly increasing and contiguous.
C14_ChunkifyPartitions ==
    Chunkifying => ChunksReproduceInput /\ OffsetsContiguous /\ ChunkLengths

\* C14, for a maximum chunk size of at least 1: the same partition property.
C14_PartitionForPositiveSize ==
    (Chunkifying /\ op.data >= 1) =>
        ChunksReproduceInput /\ OffsetsContiguous /\ ChunkLengths

\* three elements in chunks of two: <<10, 11>> at 0 and <<12>> at 2
C14_PositiveSizeReached ==
    /\ Chunkifying /\ pc = "done" /\ op.data = 2
    /\ chunker.calls = << [chunk |-> <<10, 11>>, offset |-> 0],
                          [chunk |-> <<12>>, offset |-> 2] >>

\* a pollRead has left: with success, with a timeout of its poller, or with a
\* failure of the target's read
PollEnded == Ended /\ op.kind = "pollRead"
PollSucceeded == PollEnded /\ thrown = NoExc
PollTimedOut == PollEnded /\ thrown.kind = "PollReadTimeout"

\* C15: BasicPoller evaluates the predicate at least once on every invocation
\* whatever the timeout, timeout = 0 included: it never returns failure
\* without having evaluated the predicate.
C15_EvaluatedAtLeastOnce ==
    /\ PollEnded => poll.evals >= 1 /\ Len(accesses) >= 1
    /\ PollTimedOut =>
          /\ accesses[1].k = "r" /\ accesses[1].ok
          /\ thrown.actual = accesses[Len(accesses)].v

\* a poller with timeout 0 fails after one evaluation, which read 0x01
C15_Witness ==
    /\ PollTimedOut
    /\ poll.poller.timeout = 0
    /\ poll.evals = 1
    /\ thrown.actual = 1

\* time elapsed since the poller took its start timestamp
Elapsed == clock - poll.start_timestamp

\* by how much the recheck sleeps taken so far overran their nominal duration
LoopLate == poll.late - (poll.start_timestamp - poll.poller.initial_delay)

\* C16: BasicPoller returns success immediately on the first predicate
\* evaluation that yields true, without a further recheck sleep or evaluation:
\* for a predicate false on evaluations 1..k-1 and true on evaluation k (with
\* (k-1)*recheck_delay < timeout) it returns success after exactly k
\* evaluations and k-1 recheck sleeps, e.g. exactly 3 evaluations and about
\* 20ms for BasicPoller(0, 10ms, 50ms) and k = 3.
C16_SuccessOnFirstTrue ==
    /\ PollSucceeded =>
          /\ poll.evals = Len(accesses)
          /\ \A i \in 1 .. Len(accesses) - 1 : ~Matches(accesses[i].v)
          /\ Matches(accesses[Len(accesses)].v)
          /\ poll.sleeps = poll.evals - 1
          /\ Elapsed = (poll.evals - 1) * poll.poller.wait_delay + LoopLate
    \* evaluation k is reached whenever (k-1)*recheck_delay < timeout: with
    \* nominal sleeps the poller gives up after j evaluations only when
    \* j*recheck_delay >= timeout
    /\ (PollTimedOut /\ LoopLate = 0) =>
          poll.evals * poll.poller.wait_delay >= poll.poller.timeout
    /\ (PollSucceeded /\ poll.poller = BasicPoller(0, 10, 50) /\ poll.evals = 3 /\ poll.late = 0) =>
          clock = 20

\* BasicPoller(0, 10ms, 50ms), predicate true on its 3rd evaluation: success
\* after 3 evaluations, 2 sleeps and 20ms
C16_Witness ==
    /\ PollSucceeded
    /\ poll.poller = BasicPoller(0, 10, 50)
    /\ poll.evals = 3 /\ poll.sleeps = 2
    /\ clock = 20

\* C17: against an always-false predicate, BasicPoller returns failure only
\* once at least timeout has elapsed since its start timestamp and no later
\* than timeout plus one recheck slice (for BasicPoller(0, 10ms, 50ms): at
\* least 50ms and less than 60ms), with sleeps taking their nominal duration
\* and predicate evaluation taking negligible time.
C17_FailureWithinOneSlice ==
    /\ PollTimedOut =>
          /\ \A i \in 1 .. Len(accesses) : ~Matches(accesses[i].v)
          /\ Elapsed >= poll.poller.timeout
    /\ (PollTimedOut /\ LoopLate = 0) =>
          /\ Elapsed = poll.sleeps * poll.poller.wait_delay
          /\ Elapsed <= poll.poller.timeout + poll.poller.wait_delay
          /\ poll.poller.timeout > 0 =>
                Elapsed < poll.poller.timeout + poll.poller.wait_delay
    /\ (PollTimedOut /\ LoopLate = 0 /\ poll.poller = BasicPoller(0, 10, 50)) =>
          Elapsed >= 50 /\ Elapsed < 60

\* BasicPoller(0, 10ms, 50ms) gives up at 50ms, after 5 evaluations
C17_Witness ==
    /\ PollTimedOut /\ LoopLate = 0
    /\ poll.poller = BasicPoller(0, 10, 50)
    /\ poll.evals = 5
    /\ Elapsed = 50

\* BasicPoller(5ms, 20ms, 30ms) gives up 40ms after its start timestamp
C17_LateFailureReached ==
    /\ PollTimedOut /\ LoopLate = 0
    /\ poll.poller = BasicPoller(5, 20, 30)
    /\ Elapsed = 40

\* evaluations a poller makes of an always-false predicate when its sleeps
\* take their nominal duration: one, plus one per slice that ends before the
\* timeout
NominalEvals(wait_delay, timeout) ==
    IF timeout = 0 THEN 1 ELSE (timeout + wait_delay - 1) \div wait_delay

\* C18: BasicPoller sleeps initial_delay exactly once, unconditionally and
\* before the first predicate evaluation, and measures the timeout from a
\* timestamp taken after that sleep, so the timeout excludes initial_delay:
\* the number of predicate evaluations and the success/failure result do not
\* depend on initial_delay.
C18_TimeoutExcludesInitialDelay ==
    /\ (op.kind = "pollRead" /\ poll.evals = 0) =>
          /\ pc = "poll_eval"
          /\ accesses = <<>>
          /\ clock >= poll.poller.initial_delay
          /\ poll.start_timestamp = clock
    /\ op.kind = "pollRead" =>
          clock = poll.poller.initial_delay + poll.sleeps * poll.poller.wait_delay + poll.late
    /\ PollTimedOut => clock >= poll.poller.initial_delay + poll.poller.timeout
    /\ (PollTimedOut /\ LoopLate = 0) =>
          poll.evals = NominalEvals(poll.poller.wait_delay, poll.poller.timeout)
    /\ (PollSucceeded /\ LoopLate = 0) =>
          poll.evals <= NominalEvals(poll.poller.wait_delay, poll.poller.timeout)

\* BasicPoller(5ms, 10ms, 30ms) gives up after 3 evaluations and 35ms, as
\* BasicPoller(0, 10ms, 30ms) does after 3 evaluations and 30ms
C18_Witness ==
    /\ PollTimedOut /\ poll.late = 0
    /\ poll.poller = BasicPoller(5, 10, 30)
    /\ poll.evals = 3
    /\ clock = 35

C18_NoDelayReached ==
    /\ PollTimedOut /\ poll.late = 0
    /\ poll.poller = BasicPoller(0, 10, 30)
    /\ poll.evals = 3
    /\ clock = 30

\* events 2 .. n+1 are the extra events of the n elements, in element order,
\* and there is no other extra event
ExtrasFollowStart(vals) ==
    /\ Len(events) >= 1 + Len(vals)
    /\ events[1].ev = "start"
    /\ \A i \in 1 .. Len(vals) : events[i + 1] = Event("extra", vals[i])
    /\ Count(events, "extra") = Len(vals)

\* C19: for wrapper seqWrite, fifoWrite and compWrite the interposer receives
\* exactly one extra event per element, in element order, after the start
\* event and before the underlying target call is made: the extra events are
\* there whatever the underlying call does, and only a terminal event follows
\* them.
C19_WriteExtrasBeforeCall ==
    /\ (Ended /\ op.kind \in {"seqWrite", "fifoWrite"} /\ interposer = "ip") =>
          /\ ExtrasFollowStart(FmtData(op.span))
          /\ Len(events) <= Len(op.span) + 2
    /\ (Ended /\ op.kind = "compWrite" /\ interposer = "ip") =>
          /\ ExtrasFollowStart(FmtPair(op.span))
          /\ Len(events) <= Len(op.span) + 2
    /\ (Ended /\ op.kind \in {"seqWrite", "fifoWrite", "compWrite"} /\ interposer = "ip"
           /\ Len(events) = Len(op.span) + 2) =>
          events[Len(events)].ev = (IF thrown = NoExc THEN "end" ELSE "error")

\* a seqWrite of three elements whose first underlying write raises: the three
\* extra events are out before the error
C19_Witness ==
    /\ Ended /\ op.kind = "seqWrite" /\ interposer = "ip"
    /\ op.span = <<10, 11, 12>>
    /\ op.fault = [at |-> 1, kind |-> "target_std_exception"]
    /\ Len(accesses) = 1 /\ ~accesses[1].ok
    /\ events = << Event("start", "seqWrite"),
                   Event("extra", <<2, 10>>), Event("extra", <<2, 11>>),
                   Event("extra", <<2, 12>>),
                   Event("error", What(TargetStdExc)) >>

\* every underlying access of the call is a read that returned
AllReadsReturned == \A i \in 1 .. Len(accesses) : accesses[i].k = "r" /\ accesses[i].ok

\* C20: for a successful wrapper read the interposer receives exactly one
\* extra event, after the underlying read and before the end event, carrying
\* the value read; for successful seqRead and fifoRead it receives exactly one
\* extra event per element, in element order, after the underlying call and
\* before the end event.  (A read that fails is followed by no extra event.)
C20_ReadExtrasAfterCall ==
    /\ (Ended /\ op.kind = "read" /\ interposer = "ip" /\ thrown = NoExc) =>
          /\ Len(accesses) = 1 /\ AllReadsReturned
          /\ events = << Event("start", "read"),
                         Event("extra", <<(DataBits \div 8) * 2, accesses[1].v>>),
                         Event("end", <<>>) >>
    /\ (Ended /\ op.kind \in {"seqRead", "fifoRead"} /\ interposer = "ip" /\ thrown = NoExc) =>
          /\ Len(accesses) = Len(op.span) /\ AllReadsReturned
          /\ ExtrasFollowStart([i \in 1 .. Len(accesses) |->
                                   <<(DataBits \div 8) * 2, accesses[i].v>>])
          /\ Len(events) = Len(op.span) + 2
          /\ events[Len(events)] = Event("end", <<>>)
    /\ (Ended /\ op.kind \in {"read", "seqRead", "fifoRead"} /\ thrown # NoExc) =>
          Count(events, "extra") = 0

\* a seqRead of three registers: three extra events with the values read,
\* between start and end
C20_Witness ==
    /\ Ended /\ op.kind = "seqRead" /\ interposer = "ip" /\ thrown = NoExc
    /\ events = << Event("start", "seqRead"),
                   Event("extra", <<2, 10>>), Event("extra", <<2, 11>>),
                   Event("extra", <<2, 12>>),
                   Event("end", <<>>) >>

\* a read of a register holding 0xFF
C20_ReadReached ==
    /\ Ended /\ op.kind = "read" /\ interposer = "ip" /\ thrown = NoExc
    /\ events[2] = Event("extra", <<2, 255>>)

\* a compRead through a wrapper with an interposer, the spans of equal length
CompReadObserved ==
    Ended /\ op.kind = "compRead" /\ interposer = "ip" /\ Len(op.span) = op.data

\* C21: for a successful wrapper compRead of n addresses the interposer
\* receives, between start and end, exactly n extra events carrying the
\* addresses before the underlying call and exactly n extra events carrying the
\* values after it, each group in input order, both when AddressType and
\* DataType are the same type and when they differ.  (The address events are
\* out also when the underlying call fails, the value events are not.)
C21_CompReadExtras ==
    /\ (CompReadObserved /\ thrown = NoExc) =>
          /\ Len(accesses) = Len(op.span) /\ AllReadsReturned
          /\ Len(events) = 2 * Len(op.span) + 2
          /\ events[1] = Event("start", "compRead")
          /\ \A i \in 1 .. Len(op.span) :
                /\ events[1 + i] = Event("extra", <<(AddrBits \div 8) * 2, op.span[i]>>)
                /\ events[1 + Len(op.span) + i] = Event("extra", <<DataDigits, accesses[i].v>>)
          /\ events[Len(events)] = Event("end", <<>>)
    /\ (CompReadObserved /\ thrown # NoExc) =>
          ExtrasFollowStart(FmtAddr(op.span))

\* in a same-type instantiation, a compRead of two registers holding 11 and 12
C21_Witness ==
    /\ CompReadObserved /\ thrown = NoExc /\ sameType
    /\ events = << Event("start", "compRead"),
                   Event("extra", <<4, 256>>), Event("extra", <<4, 260>>),
                   Event("extra", <<4, 11>>), Event("extra", <<4, 12>>),
                   Event("end", <<>>) >>

\* the same call with DataType = uint8_t
C21_DifferentTypesReached ==
    /\ CompReadObserved /\ thrown = NoExc /\ ~sameType
    /\ events = << Event("start", "compRead"),
                   Event("extra", <<4, 256>>), Event("extra", <<4, 260>>),
                   Event("extra", <<2, 11>>), Event("extra", <<2, 12>>),
                   Event("end", <<>>) >>

\* the wrapper operations that report no data
NoExtraOps == {"write", "readModifyWrite", "writeVerify", "readVerify", "pollRead"}

\* C22: wrapper write, readModifyWrite, writeVerify, readVerify and pollRead
\* never emit an extra event: the interposer sees only the start event and,
\* after it, the end or the error event, however many underlying reads
\* pollRead performs.
C22_NoExtraEvents ==
    (op.kind \in NoExtraOps /\ interposer = "ip") =>
        /\ Count(events, "extra") = 0
        /\ \A i \in 1 .. Len(events) : events[i].ev \in {"start", "end", "error"}
        /\ Len(events) >= 1 /\ Len(events) <= 2
        /\ events[1].ev = "start"
        /\ Len(events) = 2 => (Ended /\ events[2].ev \in {"end", "error"})

\* a pollRead that succeeded on its third read: start and end, nothing else
C22_Witness ==
    /\ Ended /\ op.kind = "pollRead" /\ interposer = "ip"
    /\ Len(accesses) = 3
    /\ events = << Event("start", "pollRead"), Event("end", <<>>) >>

\* a writeVerify that failed after two underlying accesses: start and error
C22_VerifyReached ==
    /\ Ended /\ op.kind = "writeVerify" /\ interposer = "ip"
    /\ Len(accesses) = 2 /\ thrown.kind = "target_std_exception"
    /\ Len(events) = 2 /\ events[2].ev = "error"

\* the default batch operations, and what element i (1-based) of the batch in
\* op asks of the target
BatchWrites == {"seqWrite", "fifoWrite", "compWrite"}
BatchReads == {"seqRead", "fifoRead", "compRead"}

ElemAddr(i) ==
    CASE op.kind \in {"seqWrite", "seqRead"} -> op.addr + op.increment * (i - 1)
      [] op.kind \in {"fifoWrite", "fifoRead"} -> op.addr
      [] op.kind = "compWrite" -> op.span[i][1]
      [] op.kind = "compRead" -> op.span[i]

ElemData(i) == IF op.kind = "compWrite" THEN op.span[i][2] ELSE op.span[i]

\* a batch whose element op.fault.at raised in the target
BatchFailed ==
    /\ Ended /\ op.kind \in BatchWrites \cup BatchReads
    /\ op.fault.at >= 1
    /\ op.kind = "compRead" => Len(op.span) = op.data

\* C23: when the underlying single write or read raises on element k of a
\* default batch operation (seq/fifo/comp), the batch aborts: elements before
\* k have each been issued exactly once and are not rolled back, element k is
\* not retried, no element after k is issued, and the failure propagates to
\* the caller.
C23_BatchAbortsAtFailure ==
    BatchFailed =>
        /\ Len(accesses) = op.fault.at
        /\ \A i \in 1 .. Len(accesses) :
              /\ accesses[i].k = (IF op.kind \in BatchWrites THEN "w" ELSE "r")
              /\ accesses[i].a = ElemAddr(i)
              /\ accesses[i].ok = (i < op.fault.at)
              /\ op.kind \in BatchWrites => accesses[i].v = ElemData(i)
        /\ thrown = FaultExc(op.fault)
        /\ Propagates(thrown)
        /\ pc = "done"
        /\ op.kind \in BatchWrites =>
              \A i \in 1 .. op.fault.at - 1 :
                  (\A j \in i + 1 .. op.fault.at - 1 : ElemAddr(j) # ElemAddr(i)) =>
                      regs[ElemAddr(i)] = BitAnd(ElemData(i), BitNot(dropMask))
        /\ op.kind \in BatchReads =>
              /\ Len(out) = Len(op.span)
              /\ \A i \in 1 .. Len(out) :
                    out[i] = (IF i < op.fault.at THEN accesses[i].v ELSE Untouched)

\* a seqWrite of <<10, 12, 11>> whose second write raises: 10 stays written at
\* 0x100, nothing reaches 0x108
C23_Witness ==
    /\ BatchFailed /\ op.kind = "seqWrite" /\ op.increment = 4
    /\ op.span = <<10, 12, 11>> /\ op.fault.at = 2
    /\ accesses = << Access("w", 256, 10, TRUE), Access("w", 260, 12, FALSE) >>
    /\ regs[256] = 10 /\ regs[260] = 0 /\ regs[264] = 0
    /\ thrown = TargetStdExc

C25_ReportsToInterposerOfConstruction ==
    registry.hook.wrapper # 0 =>
        registry.hook.at = registry.wrappers[registry.hook.wrapper].interposer

\* what holds of the pointer itself: it is set once, and a wrapper whose
\* instance still lives, or that has none, reports exactly there
C25_PointerResolvedOnce ==
    registry.hook.wrapper # 0 =>
        LET w == registry.wrappers[registry.hook.wrapper]
        IN  w.interposer \notin registry.destroyed => registry.hook.at = w.interposer

\* a wrapper of the default constructor reported after the default changed
C25_ReportAfterSetDefault ==
    /\ registry.hook.wrapper # 0
    /\ ~registry.wrappers[registry.hook.wrapper].explicit
    /\ registry.wrappers[registry.hook.wrapper].interposer \in registry.destroyed

\* ---------------------------------------------------------------------------
\* C26: every hook call the wrapper makes (seq, step, start, extra, end,
\* error) carries the wrapped target's getDomain() as the domain argument and
\* the wrapped target's getName() as the instance argument.
C26_HooksCarryDomainAndName ==
    \A i \in DOMAIN events :
        /\ events[i].domain = getDomain
        /\ events[i].instance = getName

\* the half of it that holds: the instance argument is the target's getName()
C26_HooksCarryName ==
    \A i \in DOMAIN events : events[i].instance = getName

\* hook calls of every kind were made
C26_HooksReached ==
    /\ Ended
    /\ events # <<>>

\* ---------------------------------------------------------------------------
\* C27: seq(msg) and step(msg) are pure annotations: a call makes exactly one
\* call of the interposer's seq (resp. step) hook (none when the wrapper has
\* no interposer), makes no target read or write, emits no start, extra, end
\* or error event and raises nothing, wherever among the other calls it is
\* made.
C27_AnnotationsArePure ==
    (Ended /\ op.kind \in {"seq", "step"}) =>
        /\ accesses = <<>>
        /\ out = <<>>
        /\ thrown = NoExc
        /\ pc = "done"
        /\ Len(events) = (IF interposer = "ip" THEN 1 ELSE 0)
        /\ \A i \in DOMAIN events : events[i].ev = op.kind
        /\ \A k \in {"start", "extra", "end", "error"} : Count(events, k) = 0

\* a step annotation made after another call, on a wrapper with an interposer
C27_Witness ==
    /\ Ended
    /\ op.kind = "step"
    /\ interposer = "ip"
    /\ nops = MaxOps
    /\ Len(events) = 1

\* a seq annotation as the first call
C27_SeqReached ==
    /\ Ended
    /\ op.kind = "seq"
    /\ interposer = "ip"
    /\ nops = 1

\* ---------------------------------------------------------------------------
\* C28: null(msg) and delay(duration, msg) emit exactly a start event followed
\* by an end event and make no target read or write; delay blocks the caller
\* for the duration between the two: while it sleeps only the start event
\* was emitted, and the end event comes no earlier than the duration later.
C28_NullAndDelay ==
    /\ pc = "sleeping" =>
          /\ op.kind = "delay"
          /\ accesses = <<>>
          /\ clock = 0
          /\ Count(events, "end") = 0
          /\ interposer = "ip" => Len(events) = 1 /\ events[1].ev = "start"
    /\ (Ended /\ op.kind \in {"null", "delay"}) =>
          /\ accesses = <<>>
          /\ out = <<>>
          /\ thrown = NoExc
          /\ pc = "done"
          /\ Len(events) = (IF interposer = "ip" THEN 2 ELSE 0)
          /\ interposer = "ip" => events[1].ev = "start" /\ events[2].ev = "end"
          /\ op.kind = "delay" => clock >= op.data

\* a delay of a positive duration that ended, on a wrapper with an interposer
C28_Witness ==
    /\ Ended
    /\ op.kind = "delay"
    /\ op.data > 0
    /\ interposer = "ip"
    /\ clock >= op.data
    /\ Len(events) = 2

\* a null operation that ended
C28_NullReached ==
    /\ Ended
    /\ op.kind = "null"
    /\ interposer = "ip"
    /\ Len(events) = 2

\* ---------------------------------------------------------------------------
\* C29: operations issued one after another on one wrapper run in issue
\* order and the event stream is well bracketed: no start event occurs while
\* an earlier operation of the wrapper has a start without its terminal
\* event.
C29_WellBracketed ==
    (\E i \in DOMAIN events : events[i].ev = "start") => pending = 0

\* the half of it that holds: an operation that returned or raised a
\* std::exception left nothing open behind it
C29_BracketedUnlessForeignException ==
    (Ended /\ IsOperation /\ thrown.kind # "target_non_std") => ~Unterminated(events)

\* an operation started after an earlier one was left without terminal event
C29_StartWhilePending ==
    /\ pending > 0
    /\ \E i \in DOMAIN events : events[i].ev = "start"

\* ---------------------------------------------------------------------------
\* C30: chunkify terminates for every input sequence and every maximum chunk
\* size, 0 included, after calling the callback exactly ceil(n / max) times
\* for a sequence of length n, never with an empty chunk, and never at all
\* for an empty sequence.  First of all it terminates: a chunkify that is in
\* its loop leaves it.
C30_ChunkifyTerminates == (pc = "chunk_loop") ~> (pc = "done")

\* the same for a maximum chunk size of at least 1, which holds
C30_TerminatesForPositiveSize == (pc = "chunk_loop" /\ op.data >= 1) ~> (pc = "done")

Ceil(n, d) == (n + d - 1) \div d

\* the counts that hold: no call for an empty sequence, and for a maximum
\* chunk size of at least 1 no empty chunk and ceil(n / max) calls on return
C30_CallsForPositiveSize ==
    /\ (Chunkifying /\ op.span = <<>>) => chunker.calls = <<>> /\ pc = "done"
    /\ (Chunkifying /\ op.data >= 1) =>
          /\ \A i \in DOMAIN chunker.calls : chunker.calls[i].chunk # <<>>
          /\ pc = "done" => Len(chunker.calls) = Ceil(Len(op.span), op.data)

\* a maximum chunk size of 0: the callback got an empty chunk, again and again
C30_EmptyChunksReached ==
    /\ pc = "chunk_loop"
    /\ op.data = 0
    /\ Len(chunker.calls) = MaxCalls
    /\ \A i \in DOMAIN chunker.calls : chunker.calls[i].chunk = <<>>

\* ---------------------------------------------------------------------------
\* C31: after any sequence of setDefault calls, wrapper constructions and
\* wrapper operations, every hook call a wrapper makes is made on an
\* interposer instance that is still alive: a wrapper that took the default
\* at construction never calls into an instance a later setDefault destroyed.
C31_HooksOnLivingInterposer ==
    registry.hook.wrapper # 0 =>
        /\ registry.hook.alive
        /\ registry.hook.at # Segfault

\* the part that holds: a wrapper given its interposer explicitly (an
\* instance the caller owns, or nullptr) is not affected by setDefault
C31_ExplicitInterposerStaysAlive ==
    (registry.hook.wrapper # 0 /\ registry.wrappers[registry.hook.wrapper].explicit) =>
        /\ registry.hook.alive
        /\ registry.hook.at = registry.wrappers[registry.hook.wrapper].interposer

\* a wrapper of the default constructor called a hook through a pointer to
\* a destroyed instance
C31_DanglingCallReached ==
    /\ registry.hook.wrapper # 0
    /\ ~registry.hook.alive
    /\ ~registry.wrappers[registry.hook.wrapper].explicit

\* ---------------------------------------------------------------------------
\* C32: BasicPoller eventually returns for every predicate, one that stays
\* false included, whenever recheck_delay > 0 and the clock advances by at
\* least each slept duration, and it makes at most
\* max(1, ceil(timeout / recheck_delay)) predicate evaluations before it
\* returns failure.
MaxEvals(wait_delay, timeout) ==
    IF Ceil(timeout, wait_delay) > 1 THEN Ceil(timeout, wait_delay) ELSE 1

C32_PollerReturns ==
    /\ [](op.kind = "pollRead" =>
             /\ poll.poller.wait_delay > 0
             /\ poll.evals <= MaxEvals(poll.poller.wait_delay, poll.poller.timeout))
    /\ (pc \in {"poll_eval", "poll_sleep"}) ~> Ended

\* a predicate that stayed false: BasicPoller(0, 10ms, 50ms) returned failure
\* after exactly ceil(50 / 10) = 5 evaluations
C32_Witness ==
    /\ PollTimedOut
    /\ poll.poller = BasicPoller(0, 10, 50)
    /\ poll.evals = 5
    /\ Len(accesses) = 5

\* a timeout of 0: one evaluation, then failure
C32_SingleEvalReached ==
    /\ PollTimedOut
    /\ poll.poller.timeout = 0
    /\ poll.evals = 1

\* ---------------------------------------------------------------------------
\* C33: whenever pollRead fails with a poll-timeout error, the actual value
\* the error carries was returned by a read of addr made during that same
\* pollRead call (the most recent one), for every poller, one that returns
\* failure without evaluating the predicate included; and pollRead reads addr
\* once per predicate evaluation and never writes.
C33_TimeoutCarriesValueRead ==
    (Ended /\ op.kind = "pollRead") =>
        /\ \A i \in DOMAIN accesses : accesses[i].k = "r" /\ accesses[i].a = op.addr
        /\ thrown.kind = "PollReadTimeout" =>
              /\ accesses # <<>>
              /\ accesses[Len(accesses)].ok
              /\ thrown.actual = accesses[Len(accesses)].v

\* the part that holds: with a poller that evaluated the predicate at least
\* once, the error carries the value of the last read
C33_CarriesLastReadIfEvaluated ==
    (Ended /\ op.kind = "pollRead") =>
        /\ \A i \in DOMAIN accesses : accesses[i].k = "r" /\ accesses[i].a = op.addr
        /\ (thrown.kind = "PollReadTimeout" /\ accesses # <<>>) =>
              /\ accesses[Len(accesses)].ok
              /\ thrown.actual = accesses[Len(accesses)].v

\* a poller that returned failure without evaluating: the error carries 0
\* while the register holds 1 and was never read
C33_TimeoutWithoutReadReached ==
    /\ Ended /\ op.kind = "pollRead"
    /\ thrown.kind = "PollReadTimeout"
    /\ accesses = <<>>
    /\ thrown.actual = 0
    /\ regs[op.addr] = 1

\* ---------------------------------------------------------------------------
\* C34: in the default seqWrite/seqRead the address of element i is
\* (start + increment*i) modulo 2^16 for the 16-bit AddressType: when
\* start + increment*i exceeds the largest address the access wraps around to
\* a low address without any error, and the issued addresses are then not
\* strictly increasing.
Wraps == op.addr + op.increment * (Len(op.span) - 1) >= Pow2(16)

C34_SeqAddressWraps ==
    (Ended /\ op.kind \in {"seqWrite", "seqRead"} /\ op.fault.at = 0) =>
        /\ thrown = NoExc
        /\ Len(accesses) = Len(op.span)
        /\ \A i \in 1 .. Len(op.span) :
              /\ accesses[i].ok
              /\ accesses[i].a = (op.addr + op.increment * (i - 1)) % Pow2(16)
        /\ interposer = "ip" => EndsWith(events, "end")
        /\ Wraps => \E i \in 1 .. Len(accesses) - 1 : accesses[i + 1].a < accesses[i].a

\* seqWrite(0xfffc, [10, 11, 12], 4) wrote 0xfffc, 0x0000 and 0x0004
C34_Witness ==
    /\ Ended /\ op.kind = "seqWrite" /\ op.fault.at = 0
    /\ Wraps
    /\ Len(accesses) = 3
    /\ accesses[1].a = 65532 /\ accesses[2].a = 0 /\ accesses[3].a = 4
    /\ regs[0] = 11 /\ regs[4] = 12

\* a seqRead that wrapped returned what the low addresses hold
C34_ReadWrapReached ==
    /\ Ended /\ op.kind = "seqRead" /\ op.fault.at = 0
    /\ Wraps
    /\ out = <<10, 11, 12>>

\* ---------------------------------------------------------------------------
\* C35: when an underlying read raises on element k of a wrapper seqRead,
\* fifoRead or compRead, out[0..k-1] hold the values read and out[k..] are
\* left unchanged, no value-carrying extra event is emitted for the operation
\* and exactly one error event is emitted; when the read of a wrapper
\* read(addr, out) raises, out is left unchanged.
ReadFailed ==
    /\ Ended /\ op.kind \in BatchReads \cup {"read"}
    /\ op.fault.at >= 1
    /\ op.kind = "compRead" => Len(op.span) = op.data

\* out as the failed read leaves it, and the extra events of the operation:
\* none, but for compRead's addresses, which precede the reads
OutKeptOnFailure ==
    /\ Len(out) = (IF op.kind = "read" THEN 1 ELSE Len(op.span))
    /\ \A i \in 1 .. Len(out) :
          out[i] = (IF i < op.fault.at THEN accesses[i].v ELSE Untouched)
    /\ Count(events, "extra") =
          (IF op.kind = "compRead" /\ interposer = "ip" THEN Len(op.span) ELSE 0)
    /\ \A i \in DOMAIN events :
          events[i].ev = "extra" => events[i].val = FmtAddresses(op.span)[i - 1]

C35_FailedReadLeavesOut ==
    ReadFailed =>
        /\ OutKeptOnFailure
        /\ interposer = "ip" => Count(events, "error") = 1

\* the same for a read that raises a std::exception, which holds
C35_StdFailureLeavesOut ==
    (ReadFailed /\ IsStdException(thrown)) =>
        /\ OutKeptOnFailure
        /\ interposer = "ip" => Count(events, "error") = 1 /\ EndsWith(events, "error")

\* and what holds of out for whatever the read raises
C35_OutKeptWhateverRaised == ReadFailed => OutKeptOnFailure

\* a seqRead whose second read raised something that is no std::exception:
\* out[0] holds the value read, and no error event was emitted
C35_NoErrorEventReached ==
    /\ ReadFailed /\ op.kind = "seqRead" /\ op.fault.at = 2
    /\ interposer = "ip"
    /\ thrown.kind = "target_non_std"
    /\ out[1] = accesses[1].v /\ out[2] = Untouched
    /\ Count(events, "error") = 0

\* ---------------------------------------------------------------------------
\* C36: writeVerify issues exactly one underlying write to addr followed by
\* exactly one underlying read of addr, in that order; if the write raises,
\* no read is issued and no verify mismatch is reported; on a verify mismatch
\* what the write stored is left in the register: no rollback, no second
\* write.
C36_WriteThenRead ==
    (Ended /\ op.kind = "writeVerify") =>
        /\ Len(accesses) >= 1
        /\ accesses[1].k = "w" /\ accesses[1].a = op.addr
        /\ accesses[1].ok =>
              /\ Len(accesses) = 2
              /\ accesses[2].k = "r" /\ accesses[2].a = op.addr
        /\ ~accesses[1].ok =>
              /\ Len(accesses) = 1
              /\ thrown = FaultExc(op.fault)
              /\ thrown.kind # "WriteVerifyFailure"
        /\ thrown.kind = "WriteVerifyFailure" =>
              /\ Len(accesses) = 2
              /\ accesses[1].ok /\ accesses[2].ok
              /\ regs[op.addr] = BitAnd(accesses[1].v, BitNot(dropMask))
              /\ regs[op.addr] = accesses[2].v

\* a mismatch on a device that drops bit 0: 0xff was written once, 0xfe was
\* read back and stays in the register
C36_Witness ==
    /\ Ended /\ op.kind = "writeVerify"
    /\ thrown.kind = "WriteVerifyFailure"
    /\ accesses = <<Access("w", op.addr, 255, TRUE), Access("r", op.addr, 254, TRUE)>>
    /\ regs[op.addr] = 254

\* a writeVerify whose write raised: one access, no read
C36_WriteRaisedReached ==
    /\ Ended /\ op.kind = "writeVerify"
    /\ op.fault.at = 1
    /\ Len(accesses) = 1
    /\ ~accesses[1].ok

\* ---------------------------------------------------------------------------
\* C37: every public wrapper call produces exactly one lifecycle even when it
\* delegates to another overload: the value-returning read, seqRead, fifoRead
\* and compRead, the initializer-list seqWrite, fifoWrite, compWrite and
\* compRead, and the parameterless pollRead each emit exactly one start event
\* and one terminal event, issue the same underlying accesses as the overload
\* they delegate to, and the value-returning forms return exactly the values
\* that overload stores (a vector of length count, resp. addresses.length).
ValueReturning == {"readValue", "seqReadValue", "fifoReadValue", "compReadValue",
                   "compReadListValue"}

DelegatingCall == Ended /\ op.kind \in DOMAIN Delegate \cup {"pollRead"}

OneLifecycle ==
    /\ Count(events, "start") = 1
    /\ events[1].ev = "start"
    /\ Count(events, "end") + Count(events, "error") = 1
    /\ events[Len(events)].ev \in {"end", "error"}

\* the accesses, the outcome and the registers are those of the overload
\* called, and so is what the caller gets back
SameAsDelegate ==
    (op.kind \in DOMAIN Delegate /\ twin.nops = nops) =>
        /\ accesses = twin.accesses
        /\ thrown = twin.thrown
        /\ regs = twin.regs
        /\ events # <<>> => events[1].val = Delegate[op.kind]
        /\ (op.kind \in ValueReturning /\ thrown = NoExc) =>
              /\ out = twin.out
              /\ Len(out) = (IF op.kind = "readValue" THEN 1 ELSE Len(op.span))
        /\ op.kind = "compReadList" => out = twin.out

C37_DelegatingOverloadsOneLifecycle ==
    DelegatingCall =>
        /\ interposer = "ip" => OneLifecycle
        /\ SameAsDelegate

\* what holds: the same, with the lifecycle completed whenever the call
\* returned or raised a std::exception
C37_DelegatingSameAsDelegate ==
    DelegatingCall =>
        /\ (interposer = "ip" /\ (thrown = NoExc \/ IsStdException(thrown))) => OneLifecycle
        /\ interposer = "ip" => Count(events, "start") = 1
        /\ SameAsDelegate

\* a value-returning seqRead whose read raised something that is no
\* std::exception: a start event and no terminal event, as in the overload
\* it calls
C37_NoTerminalReached ==
    /\ DelegatingCall /\ op.kind = "seqReadValue"
    /\ interposer = "ip"
    /\ twin.nops = nops
    /\ thrown.kind = "target_non_std"
    /\ Count(events, "error") = 0 /\ Count(events, "end") = 0

\* a value-returning seqRead returned the three values its delegate stored
C37_ValuesReturnedReached ==
    /\ DelegatingCall /\ op.kind = "seqReadValue"
    /\ twin.nops = nops
    /\ thrown = NoExc
    /\ out = <<10, 11, 12>>
    /\ twin.out = out

\* a parameterless pollRead that succeeded
C37_PollReadDefaultReached ==
    /\ DelegatingCall /\ op.kind = "pollRead"
    /\ interposer = "ip"
    /\ thrown = NoExc
    /\ OneLifecycle

\* ---------------------------------------------------------------------------
\* C38: the default fifoWrite(addr, data) and fifoRead(addr, out) issue
\* exactly the same sequence of underlying accesses, and store the same
\* values, as the default seqWrite(addr, data, increment = 0) and
\* seqRead(addr, out, increment = 0), for every addr and every span.
C38_FifoIsSeqWithIncrementZero ==
    (Ended /\ op.kind \in {"fifoWrite", "fifoRead"} /\ twin.nops = nops) =>
        /\ twin.accesses = accesses
        /\ twin.out = out
        /\ twin.regs = regs
        /\ twin.thrown = thrown

\* a fifoRead of three elements after a fifoWrite, both replayed as
\* sequential accesses: three reads of 0x100 returning the last value written
C38_Witness ==
    /\ Ended /\ op.kind = "fifoRead" /\ twin.nops = nops /\ nops = MaxOps
    /\ Len(accesses) = 3
    /\ \A i \in 1 .. 3 : accesses[i] = Access("r", 256, 12, TRUE)
    /\ out = <<12, 12, 12>>
    /\ twin.out = out

\* a fifoWrite of three elements replayed as seqWrite with increment 0
C38_WriteReached ==
    /\ Ended /\ op.kind = "fifoWrite" /\ twin.nops = nops
    /\ Len(twin.accesses) = 3
    /\ twin.accesses = accesses
    /\ thrown = NoExc

====
